---- MODULE Spec2Model ----
(***************************************************************************)
(* Model of the svg-canvas-mcp core: the History Manager                   *)
(* (core/history-manager.ts), the Layer Manager (core/layer-manager.ts),   *)
(* the Document Manager's element tree (core/document.ts), the Element     *)
(* Model and Identifier Generator (core/element.ts, core/id-generator.ts)  *)
(* and the object/history tools that drive them.                           *)
(*                                                                         *)
(* JavaScript objects are mutable and shared by reference.  Documents live *)
(* in `heap`, a map from object references to document values: the live    *)
(* document, the object last returned to the caller, and one object per    *)
(* stored snapshot.  A deep copy (JSON.parse(JSON.stringify(x))) writes a  *)
(* new object; storing a reference shares the old one.                     *)
(***************************************************************************)
EXTENDS Integers, Sequences, FiniteSets, TLC

VARIABLES
    heap,           \* object reference -> document value
    entries,        \* HistoryManager.entries
    snapshots,      \* HistoryManager.snapshots: entry id -> reference of the stored document
    currentIndex,   \* HistoryManager.currentIndex
    maxEntries,     \* HistoryManager.maxEntries
    isRecording,    \* HistoryManager.isRecording
    nextUuid,       \* number of identifiers generateUUID has handed out
    returned,       \* reference returned by the last undo/redo/goto, NoRef for null
    lastOp,         \* the call that produced this state, with the cursor it started from
    layers,         \* LayerManager.layers
    activeLayerId,  \* LayerManager.activeLayerId ("" for null)
    counters,       \* id-generator.ts counters: prefix -> last number handed out
    lastLayerOp,    \* the Layer Manager call that produced this state, with its result
    scenario,       \* position of the tool calls so far in the draw+undo scenario
    mgr,            \* SVGDocumentManager fields beside the document: rawDefs,
                    \* rawElements, filePath ("" for null), isDirty
    probe           \* what the last call was given and what it gave back

vars == <<heap, entries, snapshots, currentIndex, maxEntries, isRecording,
          nextUuid, returned, lastOp, layers, activeLayerId, counters, lastLayerOp,
          scenario, mgr, probe>>

histVars == <<heap, entries, snapshots, currentIndex, maxEntries, isRecording,
              nextUuid, returned, lastOp>>
layerVars == <<layers, activeLayerId, lastLayerOp>>
nonHistVars == <<layers, activeLayerId, counters, lastLayerOp, scenario, mgr, probe>>
nonLayerVars == <<heap, entries, snapshots, currentIndex, maxEntries, isRecording,
                  nextUuid, returned, lastOp, scenario, mgr, probe>>

(***************************************************************************)
(* Bounds of the model.                                                    *)
(***************************************************************************)
MaxEntriesBound == 3    \* maxEntries is drawn from 0..MaxEntriesBound
MaxRecords == 4         \* record() calls per behaviour
MaxRecordRun == 8       \* record() calls per behaviour when nothing else is called
MaxSteps == 2           \* the steps argument of undo/redo is drawn from 1..MaxSteps
MaxLayers == 2          \* layers in the list
MaxLayerIds == 3        \* layer identifiers generated per behaviour
MaxMembers == 2         \* element references over all membership lists
MaxNodes == 3           \* elements in the document tree
MaxToolRecords == 3     \* recording tool calls per canvas

Max(a, b) == IF a > b THEN a ELSE b
Min(a, b) == IF a < b THEN a ELSE b
Range(s) == {s[i] : i \in DOMAIN s}

(***************************************************************************)
(* Object references.                                                      *)
(***************************************************************************)
Live == <<"live", 0>>
Ret == <<"ret", 0>>
NoRef == <<"null", 0>>
SnapRef(id) == <<"snap", id>>

(***************************************************************************)
(* Documents and elements (types/index.ts).  An element is                 *)
(* [id, type, children]; children is empty for everything but a group.     *)
(***************************************************************************)
El(id, type) == [id |-> id, type |-> type, children |-> <<>>]
Doc(els) == [elements |-> els]
EmptyDoc == Doc(<<>>)

\* JSON.parse(JSON.stringify(x)): rebuilds the value node by node.
RECURSIVE JsonCloneEl(_)
JsonCloneEl(e) ==
    [id |-> e.id, type |-> e.type,
     children |-> [i \in 1..Len(e.children) |-> JsonCloneEl(e.children[i])]]

\* Every property of the document is copied; the element tree node by node.
JsonClone(d) ==
    [f \in DOMAIN d |->
        IF f = "elements" THEN [i \in 1..Len(d.elements) |-> JsonCloneEl(d.elements[i])]
        ELSE d[f]]

\* The fields of a new SVGDocumentManager beside its document.
FreshManager == [rawDefs |-> <<>>, rawElements |-> <<>>, filePath |-> "", isDirty |-> FALSE]

NoProbe == [tool |-> "none", arg |-> "", from |-> -1, undoFrom |-> -2]

Put(hp, r, v) == (r :> v) @@ hp

\* Objects nobody references any more are collected.
Collect(hp, snaps, ret) ==
    LET keep == {Live, ret} \cup Range(snaps)
    IN  [r \in (DOMAIN hp) \cap keep |-> hp[r]]

(***************************************************************************)
(* History Manager (core/history-manager.ts).  The operators work on a     *)
(* record h = [heap, entries, snapshots, currentIndex, nextUuid, ret].     *)
(***************************************************************************)
HState == [heap |-> heap, entries |-> entries, snapshots |-> snapshots,
           currentIndex |-> currentIndex, nextUuid |-> nextUuid, ret |-> returned]

\* constructor(maxEntries: number = 100)
DefaultMaxEntries == 100

\* generateUUID('history'): a v4 UUID, never handed out twice.
generateUUID(h) == h.nextUuid

Without(snaps, ids) == [i \in (DOMAIN snaps) \ ids |-> snaps[i]]

\* A plausible slip: the snapshot map keeps the caller's object.
StoreSnapshotShared(id, documentState) == documentState

\* this.snapshots.set(entry.id, {document: JSON.parse(JSON.stringify(documentState))}):
\* the reference under which the copy is stored.
StoreSnapshot(id, documentState) == SnapRef(id)

\* return JSON.parse(JSON.stringify(snapshot.document)): the reference of the copy.
ReturnSnapshot(ref) == Ret

\* Truncation of the redo branch: entries.splice(currentIndex + 1) and the
\* deletion of the removed entries' snapshots.
DiscardRedoBranch(h) ==
    IF h.currentIndex < Len(h.entries) - 1
    THEN LET removed == {h.entries[i].id : i \in (h.currentIndex + 2)..Len(h.entries)}
         IN  [h EXCEPT !.entries = SubSeq(h.entries, 1, h.currentIndex + 1),
                       !.snapshots = Without(h.snapshots, removed)]
    ELSE h

\* A plausible slip: the head is evicted but the cursor is not moved with it.
EvictOneKeepCursor(h) ==
    [h EXCEPT !.entries = Tail(h.entries),
              !.snapshots = Without(h.snapshots,
                                    IF h.entries = <<>> THEN {} ELSE {Head(h.entries).id})]

\* One round of the eviction loop: entries.shift(), delete its snapshot, currentIndex--.
EvictOne(h) ==
    [h EXCEPT !.entries = Tail(h.entries),
              !.snapshots = Without(h.snapshots,
                                    IF h.entries = <<>> THEN {} ELSE {Head(h.entries).id}),
              !.currentIndex = h.currentIndex - 1]

\* A plausible slip: the loop stops one entry early.
RECURSIVE EvictLoopOneTooMany(_, _)
EvictLoopOneTooMany(h, max) ==
    IF Len(h.entries) > max + 1 THEN EvictLoopOneTooMany(EvictOne(h), max) ELSE h

\* while (this.entries.length > this.maxEntries) { ... }
RECURSIVE EvictLoop(_, _)
EvictLoop(h, max) ==
    IF Len(h.entries) > max THEN EvictLoop(EvictOne(h), max) ELSE h

\* A plausible slip: the redo branch is kept when recording after an undo.
RecordKeepBranch(h, recording, max, action, documentState) ==
    IF ~recording THEN h
    ELSE LET id == generateUUID(h)
             ref == StoreSnapshot(id, documentState)
             h2 == [h EXCEPT
                      !.nextUuid = h.nextUuid + 1,
                      !.snapshots = (id :> ref) @@ h.snapshots,
                      !.heap = Put(h.heap, ref, JsonClone(h.heap[documentState])),
                      !.entries = Append(h.entries, [id |-> id, action |-> action]),
                      !.currentIndex = Len(h.entries)]
         IN  EvictLoop(h2, max)

\* A plausible slip: the check of isRecording is missing.
RecordWhilePaused(h, recording, max, action, documentState) ==
    LET h1 == DiscardRedoBranch(h)
             id == generateUUID(h1)
             ref == StoreSnapshot(id, documentState)
             h2 == [h1 EXCEPT
                      !.nextUuid = h1.nextUuid + 1,
                      !.snapshots = (id :> ref) @@ h1.snapshots,
                      !.heap = Put(h1.heap, ref, JsonClone(h1.heap[documentState])),
                      !.entries = Append(h1.entries, [id |-> id, action |-> action]),
                      !.currentIndex = Len(h1.entries)]
         IN  EvictLoop(h2, max)

\* record(action, description, documentState)
Record(h, recording, max, action, documentState) ==
    IF ~recording THEN h
    ELSE LET h1 == DiscardRedoBranch(h)
             id == generateUUID(h1)
             ref == StoreSnapshot(id, documentState)
             h2 == [h1 EXCEPT
                      !.nextUuid = h1.nextUuid + 1,
                      !.snapshots = (id :> ref) @@ h1.snapshots,
                      !.heap = Put(h1.heap, ref, JsonClone(h1.heap[documentState])),
                      !.entries = Append(h1.entries, [id |-> id, action |-> action]),
                      !.currentIndex = Len(h1.entries)]
         IN  EvictLoop(h2, max)

canUndo(h) == h.currentIndex >= 0
canRedo(h) == h.currentIndex < Len(h.entries) - 1

\* const snapshot = this.snapshots.get(entry.id);
\* return snapshot ? JSON.parse(JSON.stringify(snapshot.document)) : null;
Retrieve(h, idx) ==
    LET id == h.entries[idx + 1].id
    IN  IF id \in DOMAIN h.snapshots
        THEN LET r == ReturnSnapshot(h.snapshots[id])
             IN  [h EXCEPT !.ret = r,
                           !.heap = Put(h.heap, r, JsonClone(h.heap[h.snapshots[id]]))]
        ELSE [h EXCEPT !.ret = NoRef]

\* A plausible slip: undo moves the cursor before it looks at canUndo.
UndoUnguarded(h, steps) ==
    IF ~canUndo(h) THEN [h EXCEPT !.ret = NoRef, !.currentIndex = -1 - steps]
    ELSE LET targetIndex == Max(0, h.currentIndex - steps)
         IN  IF targetIndex > 0
             THEN Retrieve([h EXCEPT !.currentIndex = targetIndex - 1], targetIndex - 1)
             ELSE [Retrieve(h, 0) EXCEPT !.currentIndex = -1]

\* undo(steps)
Undo(h, steps) ==
    IF ~canUndo(h) THEN [h EXCEPT !.ret = NoRef]
    ELSE LET targetIndex == Max(0, h.currentIndex - steps)
         IN  IF targetIndex > 0
             THEN Retrieve([h EXCEPT !.currentIndex = targetIndex - 1], targetIndex - 1)
             ELSE [Retrieve(h, 0) EXCEPT !.currentIndex = -1]

\* redo(steps)
Redo(h, steps) ==
    IF ~canRedo(h) THEN [h EXCEPT !.ret = NoRef]
    ELSE LET targetIndex == Min(Len(h.entries) - 1, h.currentIndex + steps)
         IN  Retrieve([h EXCEPT !.currentIndex = targetIndex], targetIndex)

\* goto(historyIndex)
Goto(h, historyIndex) ==
    IF historyIndex < 0 \/ historyIndex >= Len(h.entries)
    THEN [h EXCEPT !.ret = NoRef]
    ELSE Retrieve([h EXCEPT !.currentIndex = historyIndex], historyIndex)

\* clear()
Clear(h) == [h EXCEPT !.entries = <<>>, !.snapshots = <<>>, !.currentIndex = -1]

\* The manager's fields after a call; objects no longer referenced are dropped.
Install(h) ==
    /\ entries' = h.entries
    /\ snapshots' = h.snapshots
    /\ currentIndex' = h.currentIndex
    /\ nextUuid' = h.nextUuid
    /\ returned' = h.ret
    /\ heap' = Collect(h.heap, h.snapshots, h.ret)

\* The call just made: its name, its numeric argument, the document object
\* passed to it and the cursor it started from.
Call(op, arg, doc) == [op |-> op, arg |-> arg, doc |-> doc, from |-> currentIndex]

NoCall == [op |-> "init", arg |-> 0, doc |-> NoRef, from |-> -1]

Log(op, arg, doc) == lastOp' = Call(op, arg, doc)

(***************************************************************************)
(* Identifier Generator (core/id-generator.ts).                            *)
(***************************************************************************)
Prefixes == {"layer", "rect", "circle", "path", "group"}

\* resetCounters(): every counter is deleted (an absent counter counts as 0).
NoCounters == [p \in Prefixes |-> 0]

MkId(prefix, n) == prefix \o "-" \o ToString(n)

\* A generator that hands out the next number without counting it.
generateIdStuck(c, prefix) == [counters |-> c, id |-> MkId(prefix, c[prefix] + 1)]

\* generateId(prefix): the counters after the call and the identifier returned.
generateId(c, prefix) ==
    [counters |-> [c EXCEPT ![prefix] = c[prefix] + 1],
     id |-> MkId(prefix, c[prefix] + 1)]

(***************************************************************************)
(* Layer Manager (core/layer-manager.ts).  A layer is [id, locked,         *)
(* elements]; the operators work on a record                               *)
(* m = [layers, activeLayerId, counters, success, layerId, message].       *)
(***************************************************************************)
NoLayer == ""

Layer(id, locked, els) == [id |-> id, locked |-> locked, elements |-> els]

LState == [layers |-> layers, activeLayerId |-> activeLayerId, counters |-> counters,
           success |-> TRUE, layerId |-> NoLayer, message |-> ""]

\* The messages of the failure results, by what they say.
LayerNotFound == "layer not found"
LastLayer == "the last layer cannot be deleted"
InvalidIndex == "invalid index"
LayerLocked == "no element can be added to a locked layer"
ElementNotFound == "element not found"
SameLayer == "a layer cannot be merged with itself"
OpacityRange == "opacity must be between 0 and 1"

\* A success result (its message, the layer's name in a sentence, is left out)
\* and a failure result.
Ok(m, layerId) == [m EXCEPT !.success = TRUE, !.layerId = layerId, !.message = ""]
Fail(m, message) == [m EXCEPT !.success = FALSE, !.layerId = NoLayer, !.message = message]

InsertAt(s, i, x) == SubSeq(s, 1, i) \o <<x>> \o SubSeq(s, i + 1, Len(s))
RemoveAt(s, i) == SubSeq(s, 1, i - 1) \o SubSeq(s, i + 1, Len(s))

\* Array.indexOf / findIndex, 1-based; 0 when there is no match.
IndexOf(s, x) ==
    IF \E i \in DOMAIN s : s[i] = x
    THEN CHOOSE i \in DOMAIN s : s[i] = x /\ \A j \in 1..(i - 1) : s[j] # x
    ELSE 0

LayerIndex(ls, layerId) == IndexOf([i \in DOMAIN ls |-> ls[i].id], layerId)

\* getLayer(layerId) != null
HasLayer(ls, layerId) == LayerIndex(ls, layerId) # 0

\* createLayer(name, insertAt); insertAt = -1 stands for an omitted argument,
\* which like every out-of-range index appends.
createLayer(m, insertAt) ==
    LET g == generateId(m.counters, "layer")
        layer == Layer(g.id, FALSE, <<>>)
        ls == IF insertAt >= 0 /\ insertAt <= Len(m.layers)
              THEN InsertAt(m.layers, insertAt, layer)
              ELSE Append(m.layers, layer)
    IN  Ok([m EXCEPT !.counters = g.counters,
                     !.layers = ls,
                     !.activeLayerId = IF Len(ls) = 1 THEN g.id ELSE m.activeLayerId],
           g.id)

\* A plausible slip: the last-layer check is missing.
deleteLayerNoGuard(m, layerId) ==
    LET index == LayerIndex(m.layers, layerId)
    IN  IF index = 0 THEN Fail(m, LayerNotFound)
        ELSE LET ls == RemoveAt(m.layers, index)
                 act == IF m.activeLayerId = layerId
                        THEN (IF ls = <<>> THEN NoLayer
                              ELSE ls[Min(index, Len(ls))].id)
                        ELSE m.activeLayerId
             IN  Ok([m EXCEPT !.layers = ls, !.activeLayerId = act], NoLayer)

\* A plausible slip: the active layer id is left as it was.
deleteLayerKeepActive(m, layerId) ==
    LET index == LayerIndex(m.layers, layerId)
    IN  IF index = 0 THEN Fail(m, LayerNotFound)
        ELSE IF Len(m.layers) = 1 THEN Fail(m, LastLayer)
        ELSE Ok([m EXCEPT !.layers = RemoveAt(m.layers, index)], NoLayer)

\* deleteLayer(layerId)
deleteLayer(m, layerId) ==
    LET index == LayerIndex(m.layers, layerId)
    IN  IF index = 0 THEN Fail(m, LayerNotFound)
        ELSE IF Len(m.layers) = 1 THEN Fail(m, LastLayer)
        ELSE LET ls == RemoveAt(m.layers, index)
                 act == IF m.activeLayerId = layerId
                        THEN ls[Min(index, Len(ls))].id
                        ELSE m.activeLayerId
             IN  Ok([m EXCEPT !.layers = ls, !.activeLayerId = act], NoLayer)

\* reorderLayer(layerId, newIndex)
reorderLayer(m, layerId, newIndex) ==
    LET cur == LayerIndex(m.layers, layerId)
    IN  IF cur = 0 THEN Fail(m, LayerNotFound)
        ELSE IF newIndex < 0 \/ newIndex >= Len(m.layers) THEN Fail(m, InvalidIndex)
        ELSE Ok([m EXCEPT !.layers = InsertAt(RemoveAt(m.layers, cur), newIndex,
                                              m.layers[cur])],
                layerId)

\* setLayerLock(layerId, locked)
setLayerLock(m, layerId, locked) ==
    LET i == LayerIndex(m.layers, layerId)
    IN  IF i = 0 THEN Fail(m, LayerNotFound)
        ELSE Ok([m EXCEPT !.layers[i].locked = locked], layerId)

\* setActiveLayer(layerId)
setActiveLayer(m, layerId) ==
    IF ~HasLayer(m.layers, layerId) THEN Fail(m, LayerNotFound)
    ELSE Ok([m EXCEPT !.activeLayerId = layerId], layerId)

\* l.elements.splice(l.elements.indexOf(elementId), 1) when it is a member.
RemoveFirst(els, elementId) ==
    IF IndexOf(els, elementId) = 0 THEN els ELSE RemoveAt(els, IndexOf(els, elementId))

\* A plausible slip: the element is not taken out of the layer that holds it.
addElementToLayerNoRemove(m, layerId, elementId) ==
    LET i == LayerIndex(m.layers, layerId)
    IN  IF i = 0 THEN Fail(m, LayerNotFound)
        ELSE IF m.layers[i].locked THEN Fail(m, LayerLocked)
        ELSE Ok([m EXCEPT !.layers[i].elements = Append(m.layers[i].elements, elementId)],
                layerId)

\* addElementToLayer(layerId, elementId)
addElementToLayer(m, layerId, elementId) ==
    LET i == LayerIndex(m.layers, layerId)
    IN  IF i = 0 THEN Fail(m, LayerNotFound)
        ELSE IF m.layers[i].locked THEN Fail(m, LayerLocked)
        ELSE LET cleared == [k \in DOMAIN m.layers |->
                               [m.layers[k] EXCEPT
                                  !.elements = RemoveFirst(m.layers[k].elements, elementId)]]
             IN  Ok([m EXCEPT !.layers =
                        [cleared EXCEPT ![i].elements = Append(cleared[i].elements, elementId)]],
                    layerId)

\* getActiveLayer() != null
HasActiveLayer(m) == m.activeLayerId # NoLayer /\ HasLayer(m.layers, m.activeLayerId)

\* addElementToActiveLayer(elementId)
addElementToActiveLayer(m, elementId) ==
    IF ~HasActiveLayer(m)
    THEN LET c == createLayer(m, -1)
         IN  addElementToLayer(c, c.layerId, elementId)
    ELSE addElementToLayer(m, m.activeLayerId, elementId)

\* removeElementFromLayer(elementId): the first layer that holds it gives it up.
removeElementFromLayer(m, elementId) ==
    IF \E k \in DOMAIN m.layers : IndexOf(m.layers[k].elements, elementId) # 0
    THEN LET k == CHOOSE k \in DOMAIN m.layers :
                    /\ IndexOf(m.layers[k].elements, elementId) # 0
                    /\ \A j \in 1..(k - 1) : IndexOf(m.layers[j].elements, elementId) = 0
         IN  Ok([m EXCEPT !.layers[k].elements = RemoveFirst(m.layers[k].elements, elementId)],
                NoLayer)
    ELSE Fail(m, ElementNotFound)

\* A plausible slip: a layer may be merged with itself.
mergeLayersWithItself(m, sourceLayerId, targetLayerId) ==
    LET s == LayerIndex(m.layers, sourceLayerId)
        t == LayerIndex(m.layers, targetLayerId)
    IN  IF s = 0 \/ t = 0 THEN Fail(m, LayerNotFound)
        ELSE deleteLayer([m EXCEPT !.layers[t].elements =
                             m.layers[t].elements \o m.layers[s].elements],
                         sourceLayerId)

\* A plausible slip: the source is deleted without its members being moved.
mergeLayersDropMembers(m, sourceLayerId, targetLayerId) ==
    IF ~HasLayer(m.layers, sourceLayerId) \/ ~HasLayer(m.layers, targetLayerId) THEN Fail(m, LayerNotFound)
    ELSE IF sourceLayerId = targetLayerId THEN Fail(m, SameLayer)
    ELSE deleteLayer(m, sourceLayerId)

\* mergeLayers(sourceLayerId, targetLayerId)
mergeLayers(m, sourceLayerId, targetLayerId) ==
    LET s == LayerIndex(m.layers, sourceLayerId)
        t == LayerIndex(m.layers, targetLayerId)
    IN  IF s = 0 \/ t = 0 THEN Fail(m, LayerNotFound)
        ELSE IF sourceLayerId = targetLayerId THEN Fail(m, SameLayer)
        ELSE deleteLayer([m EXCEPT !.layers[t].elements =
                             m.layers[t].elements \o m.layers[s].elements],
                         sourceLayerId)

\* duplicateLayer(layerId)
duplicateLayer(m, layerId) ==
    LET i == LayerIndex(m.layers, layerId)
    IN  IF i = 0 THEN Fail(m, LayerNotFound)
        ELSE LET g == generateId(m.counters, "layer")
                 newLayer == Layer(g.id, FALSE, m.layers[i].elements)
             IN  Ok([m EXCEPT !.counters = g.counters,
                              !.layers = InsertAt(m.layers, i, newLayer)],
                    g.id)

\* reset()
resetLayers(m) ==
    createLayer([m EXCEPT !.layers = <<>>, !.activeLayerId = NoLayer], -1)

\* A plausible slip: an empty layer list is restored as it is.
fromJSONLayersAsIs(m, data) ==
    Ok([m EXCEPT !.layers = data.layers, !.activeLayerId = data.activeLayerId], NoLayer)

\* fromJSON(data)
fromJSONLayers(m, data) ==
    LET m1 == [m EXCEPT !.layers = data.layers, !.activeLayerId = data.activeLayerId]
    IN  IF Len(m1.layers) = 0 THEN createLayer(m1, -1) ELSE Ok(m1, NoLayer)

\* new LayerManager(): the constructor creates 'Layer 1'.
NewLayerManager(c) ==
    createLayer([layers |-> <<>>, activeLayerId |-> NoLayer, counters |-> c,
                 success |-> TRUE, layerId |-> NoLayer, message |-> ""], -1)

\* The call just made: its name, the layer id passed to it (kept for
\* deleteLayer, setLayerLock and addElementToLayer) and whether it succeeded.
LayerCall(op, arg, m) == [op |-> op, arg |-> arg, success |-> m.success]

NoLayerCall == [op |-> "init", arg |-> "", success |-> TRUE]

InstallLayers(op, arg, m) ==
    /\ layers' = m.layers
    /\ activeLayerId' = m.activeLayerId
    /\ counters' = m.counters
    /\ lastLayerOp' = LayerCall(op, arg, m)

LayerFresh ==
    LET m == NewLayerManager(NoCounters)
    IN  /\ layers = m.layers
        /\ activeLayerId = m.activeLayerId
        /\ counters = m.counters
        /\ lastLayerOp = NoLayerCall

HistoryFresh ==
    /\ heap = (Live :> EmptyDoc)
    /\ entries = <<>>
    /\ snapshots = <<>>
    /\ currentIndex = -1
    /\ isRecording = TRUE
    /\ nextUuid = 0
    /\ returned = NoRef
    /\ lastOp = NoCall
    /\ mgr = FreshManager
    /\ probe = NoProbe

(***************************************************************************)
(* Element Model (core/element.ts) and the element tree of the Document    *)
(* Manager (core/document.ts).                                             *)
(***************************************************************************)
\* A counter is read back from an identifier of the form prefix-number.
MaxSuffix == 9

\* id.match(/^([a-z]+)-(\d+)$/): the prefix and number of an identifier, or
\* <<"", 0>> when it does not have that form.
ParseId(id) ==
    IF \E p \in Prefixes, n \in 0..MaxSuffix : MkId(p, n) = id
    THEN CHOOSE pn \in Prefixes \X (0..MaxSuffix) : MkId(pn[1], pn[2]) = id
    ELSE <<"", 0>>

\* A synchronisation that sets the counter to the number found, lower or not.
syncCounterFromIdOverwrite(c, id) ==
    LET pn == ParseId(id)
    IN  IF pn[1] # "" THEN [c EXCEPT ![pn[1]] = pn[2]] ELSE c

\* syncCounterFromId(id)
syncCounterFromId(c, id) ==
    LET pn == ParseId(id)
    IN  IF pn[1] # "" /\ c[pn[1]] < pn[2] THEN [c EXCEPT ![pn[1]] = pn[2]] ELSE c

\* syncCountersFromIds(ids)
RECURSIVE syncCountersFromIds(_, _)
syncCountersFromIds(c, ids) ==
    IF ids = <<>> THEN c
    ELSE syncCountersFromIds(syncCounterFromId(c, Head(ids)), Tail(ids))

\* generateId(element.type === 'g' ? 'group' : element.type)
PrefixOf(type) == IF type = "g" THEN "group" ELSE type

\* createRect, createCircle, createPath, ...: id: options.id || generateId(type).
\* An omitted id is "" (an empty string is falsy as well).
createElement(c, type, id) ==
    IF id # "" THEN [counters |-> c, el |-> El(id, type)]
    ELSE LET g == generateId(c, PrefixOf(type))
         IN  [counters |-> g.counters, el |-> El(g.id, type)]

\* createGroup(children, {id})
createGroup(c, children, id) ==
    IF id # "" THEN [counters |-> c, el |-> [id |-> id, type |-> "g", children |-> children]]
    ELSE LET g == generateId(c, "group")
         IN  [counters |-> g.counters,
              el |-> [id |-> g.id, type |-> "g", children |-> children]]

\* cloneElement(element): a deep copy with a fresh id for the element and,
\* in order, for the children of a group.
RECURSIVE cloneElement(_, _)
RECURSIVE cloneChildren(_, _)
cloneChildren(c, children) ==
    IF children = <<>> THEN [counters |-> c, els |-> <<>>]
    ELSE LET first == cloneElement(c, Head(children))
             rest == cloneChildren(first.counters, Tail(children))
         IN  [counters |-> rest.counters, els |-> <<first.el>> \o rest.els]

cloneElement(c, element) ==
    LET g == generateId(c, PrefixOf(element.type))
        kids == IF element.type = "g" THEN cloneChildren(g.counters, element.children)
                ELSE [counters |-> g.counters, els |-> element.children]
    IN  [counters |-> kids.counters,
         el |-> [id |-> g.id, type |-> element.type, children |-> kids.els]]

\* collectAllIds(elements): pre-order.
RECURSIVE collectAllIds(_)
collectAllIds(els) ==
    IF els = <<>> THEN <<>>
    ELSE <<Head(els).id>>
         \o (IF Head(els).type = "g" THEN collectAllIds(Head(els).children) ELSE <<>>)
         \o collectAllIds(Tail(els))

\* findElement(elements, id): depth-first, an element before its children.
\* The result is <<element>>, or <<>> for null.
RECURSIVE findElement(_, _)
findElement(els, id) ==
    IF els = <<>> THEN <<>>
    ELSE IF Head(els).id = id THEN <<Head(els)>>
    ELSE LET inside == IF Head(els).type = "g" THEN findElement(Head(els).children, id)
                       ELSE <<>>
         IN  IF inside # <<>> THEN inside ELSE findElement(Tail(els), id)

\* removeFromArray(elements, id): the first match in this array, else the
\* first group, in order, that has a match below it.  [els, removed, gone]:
\* the array afterwards, whether something was removed, and the removed subtree.
RECURSIVE removeFromArray(_, _)
RECURSIVE removeFromGroups(_, _, _)
removeFromGroups(els, id, k) ==
    IF k > Len(els) THEN [els |-> els, removed |-> FALSE, gone |-> <<>>]
    ELSE IF els[k].type = "g"
    THEN LET r == removeFromArray(els[k].children, id)
         IN  IF r.removed
             THEN [els |-> [els EXCEPT ![k].children = r.els], removed |-> TRUE,
                   gone |-> r.gone]
             ELSE removeFromGroups(els, id, k + 1)
    ELSE removeFromGroups(els, id, k + 1)

removeFromArray(els, id) ==
    LET index == IndexOf([i \in DOMAIN els |-> els[i].id], id)
    IN  IF index # 0
        THEN [els |-> RemoveAt(els, index), removed |-> TRUE, gone |-> <<els[index]>>]
        ELSE removeFromGroups(els, id, 1)

\* addElement(element): this.document.elements.push(element).
addElement(els, element) == Append(els, element)

\* Object identity inside one handler: every node of the tree gets its
\* pre-order number, so that an element object collected before a removal
\* can be looked up again after it.
RECURSIVE Tag(_, _)
Tag(els, next) ==
    IF els = <<>> THEN [els |-> <<>>, next |-> next]
    ELSE LET kids == Tag(Head(els).children, next + 1)
             rest == Tag(Tail(els), kids.next)
         IN  [els |-> <<[id |-> Head(els).id, type |-> Head(els).type,
                         children |-> kids.els, oid |-> next]>> \o rest.els,
              next |-> rest.next]

RECURSIVE Untag(_)
Untag(els) ==
    [i \in 1..Len(els) |->
        [id |-> els[i].id, type |-> els[i].type, children |-> Untag(els[i].children)]]

\* All nodes of a tagged forest, as oid -> node.
RECURSIVE Nodes(_)
Nodes(els) ==
    IF els = <<>> THEN <<>>
    ELSE (Head(els).oid :> Head(els)) @@ Nodes(Head(els).children) @@ Nodes(Tail(els))

\* The loop `for (const id of objectIds) doc.removeElement(id)` of
\* object_group on the tagged tree; `detached` keeps the objects that left
\* the tree as they were when they left it.
RECURSIVE removeAll(_, _, _)
removeAll(els, detached, ids) ==
    IF ids = <<>> THEN [els |-> els, detached |-> detached]
    ELSE LET r == removeFromArray(els, Head(ids))
         IN  removeAll(r.els, detached @@ Nodes(r.gone), Tail(ids))

\* The objects getElementById found for objectIds, by object identity.
RECURSIVE collectObjects(_, _)
collectObjects(els, ids) ==
    IF ids = <<>> THEN <<>>
    ELSE LET f == findElement(els, Head(ids))
         IN  (IF f = <<>> THEN <<>> ELSE <<f[1].oid>>) \o collectObjects(els, Tail(ids))

RECURSIVE CountNodes(_)
CountNodes(els) ==
    IF els = <<>> THEN 0
    ELSE 1 + CountNodes(Head(els).children) + CountNodes(Tail(els))

(***************************************************************************)
(* The History Manager driven through its public methods by a caller that  *)
(* holds the live document and the object last returned to it.             *)
(***************************************************************************)
\* Documents the caller's mutations produce.
HistDocs ==
    { EmptyDoc,
      Doc(<<El("rect-1", "rect")>>) }

HistActions == {"draw_rect"}

\* The objects the caller can pass or mutate.
Held == {Live} \cup (IF returned = NoRef THEN {} ELSE {returned})

\* new HistoryManager(maxEntries), beside a fresh Layer Manager.
HistInit ==
    /\ HistoryFresh
    /\ maxEntries \in 0..MaxEntriesBound
    /\ LayerFresh
    /\ scenario = "off"

\* The caller changes a document object it holds.
Mutate ==
    \E r \in Held, d \in HistDocs :
        /\ heap[r] # d
        /\ heap' = [heap EXCEPT ![r] = d]
        /\ Log("mutate", 0, r)
        /\ UNCHANGED <<entries, snapshots, currentIndex, maxEntries, isRecording,
                       nextUuid, returned>>
        /\ UNCHANGED nonHistVars

RecordCall(limit) ==
    \E a \in HistActions, r \in Held :
        /\ nextUuid < limit
        /\ Install(Record(HState, isRecording, maxEntries, a, r))
        /\ Log("record", 0, r)
        /\ UNCHANGED <<maxEntries, isRecording>>
        /\ UNCHANGED nonHistVars

record == RecordCall(MaxRecords)

recordRun == RecordCall(MaxRecordRun)

undo ==
    \E steps \in 1..MaxSteps :
        /\ Install(Undo(HState, steps))
        /\ Log("undo", steps, NoRef)
        /\ UNCHANGED <<maxEntries, isRecording>>
        /\ UNCHANGED nonHistVars

redo ==
    \E steps \in 1..MaxSteps :
        /\ Install(Redo(HState, steps))
        /\ Log("redo", steps, NoRef)
        /\ UNCHANGED <<maxEntries, isRecording>>
        /\ UNCHANGED nonHistVars

goto ==
    \E i \in -1..MaxEntriesBound :
        /\ Install(Goto(HState, i))
        /\ Log("goto", i, NoRef)
        /\ UNCHANGED <<maxEntries, isRecording>>
        /\ UNCHANGED nonHistVars

clear ==
    /\ Install(Clear(HState))
    /\ Log("clear", 0, NoRef)
    /\ UNCHANGED <<maxEntries, isRecording>>
    /\ UNCHANGED nonHistVars

\* beginGroup(): pauseRecording()
beginGroup ==
    /\ isRecording' = FALSE
    /\ Log("beginGroup", 0, NoRef)
    /\ UNCHANGED <<heap, entries, snapshots, currentIndex, maxEntries, nextUuid, returned>>
    /\ UNCHANGED nonHistVars

\* endGroup(action, description, documentState): resumeRecording(); record(...)
endGroup ==
    \E a \in HistActions, r \in Held :
        /\ nextUuid < MaxRecords
        /\ isRecording' = TRUE
        /\ Install(Record(HState, TRUE, maxEntries, a, r))
        /\ Log("endGroup", 0, r)
        /\ UNCHANGED maxEntries
        /\ UNCHANGED nonHistVars

HistNext ==
    \/ Mutate
    \/ record
    \/ undo
    \/ redo
    \/ goto
    \/ clear
    \/ beginGroup
    \/ endGroup

SpecHistory == HistInit /\ [][HistNext]_vars

\* Only record() is ever called (and the caller edits the live document).
RecordOnlyNext ==
    \/ Mutate
    \/ recordRun

SpecRecordOnly == HistInit /\ [][RecordOnlyNext]_vars

(***************************************************************************)
(* Claims about the History Manager.                                       *)
(***************************************************************************)
SnapshotDoc(i) == heap[snapshots[entries[i].id]]
EntryIds == {entries[i].id : i \in DOMAIN entries}

\* C1 (as claimed): with the records of D0 and D1 the last two entries and the
\* cursor at the tail, undo() returns a document equal to D0, and a redo()
\* issued right after that undo() returns a document equal to D1.
C1_UndoRedoInverse ==
    [][ /\ ( /\ lastOp'.op = "undo" /\ lastOp'.arg = 1
             /\ Len(entries) >= 2 /\ currentIndex = Len(entries) - 1 )
           => ( /\ returned' # NoRef
                /\ heap'[returned'] = SnapshotDoc(Len(entries) - 1) )
        /\ ( /\ lastOp.op = "undo" /\ lastOp.arg = 1
             /\ Len(entries) >= 2 /\ lastOp.from = Len(entries) - 1
             /\ lastOp'.op = "redo" /\ lastOp'.arg = 1 )
           => ( /\ returned' # NoRef
                /\ heap'[returned'] = SnapshotDoc(Len(entries)) )
      ]_vars

\* C3: a record() that takes effect leaves the cursor at the tail with nothing
\* to redo; every entry that was after the cursor is gone from the entries
\* and from the snapshot map, and the new list is the entries up to the
\* cursor followed by the new entry (less what the bound evicts).
C3_RedoBranchDiscard ==
    [][ ( \/ (lastOp'.op = "record" /\ isRecording)
          \/ lastOp'.op = "endGroup" )
        => LET kept == SubSeq(entries, 1, currentIndex + 1)
               n == Len(entries')
           IN  /\ ~(currentIndex' < n - 1)
               /\ currentIndex' = n - 1
               /\ \A i \in (currentIndex + 2)..Len(entries) :
                     /\ entries[i].id \notin DOMAIN snapshots'
                     /\ \A j \in DOMAIN entries' : entries'[j].id # entries[i].id
               /\ n <= Len(kept) + 1
               /\ \A j \in 1..n :
                     LET k == Len(kept) + 1 - n + j
                     IN  IF k <= Len(kept) THEN entries'[j] = kept[k]
                         ELSE entries'[j].id = nextUuid
               /\ DOMAIN snapshots' = {entries'[j].id : j \in DOMAIN entries'}
      ]_vars

\* C3 witness: three records, a move of the cursor back to the first entry,
\* and a fourth record: the second and third entries are gone.
C3_Witness ==
    /\ lastOp.op = "record"
    /\ lastOp.from = 0
    /\ Len(entries) = 2
    /\ entries[1].id = 0
    /\ entries[2].id = 3
    /\ currentIndex = 1
    /\ DOMAIN snapshots = {0, 3}

\* The entries are the n most recently recorded ones, oldest first.
MostRecent(n) ==
    /\ Len(entries) = n
    /\ \A i \in 1..n : entries[i].id = nextUuid - n + i - 1

\* C4 (as claimed): after any number of record() calls the history holds at
\* most maxEntries entries, namely the most recent ones, and once something
\* was recorded the cursor points at the most recently recorded entry.
C4_HistoryBound_Original ==
    /\ Len(entries) <= maxEntries
    /\ MostRecent(Min(nextUuid, maxEntries))
    /\ nextUuid > 0 =>
          /\ currentIndex >= 0
          /\ currentIndex = Len(entries) - 1
          /\ entries[currentIndex + 1].id = nextUuid - 1

\* C4 (amended): the same for maxEntries >= 1; with maxEntries = 0 nothing is
\* kept and the cursor is -1.
C4_HistoryBound ==
    /\ Len(entries) <= maxEntries
    /\ MostRecent(Min(nextUuid, maxEntries))
    /\ currentIndex = Len(entries) - 1
    /\ (nextUuid > 0 /\ maxEntries >= 1) =>
          /\ currentIndex >= 0
          /\ entries[currentIndex + 1].id = nextUuid - 1
    /\ maxEntries = 0 => (entries = <<>> /\ currentIndex = -1)

\* C4 witness: maxEntries + 5 records were made; the oldest five are gone.
C4_Witness ==
    /\ maxEntries >= 2
    /\ nextUuid = maxEntries + 5
    /\ Len(entries) = maxEntries
    /\ entries[1].id = 5
    /\ currentIndex = maxEntries - 1

\* C5: a stored snapshot never changes, whatever the caller does to the live
\* document or to an object returned by undo/redo/goto; it equals the
\* document passed to record(), and every retrieval returns a document equal
\* to it.
C5_SnapshotIsolation ==
    [][ /\ \A id \in (DOMAIN snapshots) \cap (DOMAIN snapshots') :
              heap'[snapshots'[id]] = heap[snapshots[id]]
        /\ \A id \in (DOMAIN snapshots') \ (DOMAIN snapshots) :
              heap'[snapshots'[id]] = heap[lastOp'.doc]
        /\ (lastOp'.op \in {"undo", "redo", "goto"} /\ returned' # NoRef)
           => heap'[returned'] = SnapshotDoc(Max(currentIndex', 0) + 1)
      ]_vars

\* C5 witness: the caller has just edited an object returned by a retrieval,
\* and both it and the live document now differ from a stored snapshot.
C5_Witness ==
    /\ lastOp.op = "mutate"
    /\ lastOp.doc = Ret
    /\ returned = Ret
    /\ \E i \in DOMAIN entries :
          /\ SnapshotDoc(i) # heap[Live]
          /\ SnapshotDoc(i) # heap[Ret]

\* C6: the cursor stays within -1 .. length-1.
C6_CursorRange ==
    /\ -1 <= currentIndex
    /\ currentIndex <= Len(entries) - 1

\* C6 witness: with maxEntries = 0 a record() has evicted the entry it had
\* just appended and moved the cursor back with it.
C6_Witness ==
    /\ lastOp.op = "record"
    /\ maxEntries = 0
    /\ nextUuid > 0
    /\ currentIndex = -1
    /\ entries = <<>>

(***************************************************************************)
(* The Layer Manager driven through its public methods.                    *)
(***************************************************************************)
ElementIds == {"rect-1", "circle-1"}

\* Layer identifiers a caller may pass: those in the list and one that is not.
AbsentLayer == "layer-0"
LayerArgs == {layers[i].id : i \in DOMAIN layers} \cup {AbsentLayer}

\* Serialized states a caller may restore.
JsonLayerData ==
    { [layers |-> ls, activeLayerId |-> a] :
        ls \in { <<>>,
                 <<Layer("layer-1", FALSE, <<>>)>>,
                 <<Layer("layer-1", FALSE, <<"rect-1">>), Layer("layer-2", TRUE, <<>>)>> },
        a \in {NoLayer, "layer-1", AbsentLayer} }

RECURSIVE SumLen(_)
SumLen(ls) == IF ls = <<>> THEN 0 ELSE Len(Head(ls).elements) + SumLen(Tail(ls))

WithinLayerBounds(m) ==
    /\ Len(m.layers) <= MaxLayers
    /\ m.counters["layer"] <= MaxLayerIds
    /\ SumLen(m.layers) <= MaxMembers

LayerStep(op, arg, m) ==
    /\ WithinLayerBounds(m)
    /\ InstallLayers(op, arg, m)
    /\ UNCHANGED nonLayerVars

LayerInit ==
    /\ HistoryFresh
    /\ maxEntries = DefaultMaxEntries
    /\ LayerFresh
    /\ scenario = "off"

CreateLayer ==
    \E insertAt \in -1..MaxLayers :
        LayerStep("createLayer", "", createLayer(LState, insertAt))

DeleteLayer ==
    \E id \in LayerArgs :
        LayerStep("deleteLayer", id, deleteLayer(LState, id))

ReorderLayer ==
    \E id \in LayerArgs, newIndex \in -1..MaxLayers :
        LayerStep("reorderLayer", "", reorderLayer(LState, id, newIndex))

SetLayerLock ==
    \E id \in LayerArgs, locked \in BOOLEAN :
        LayerStep("setLayerLock", id, setLayerLock(LState, id, locked))

SetActiveLayer ==
    \E id \in LayerArgs :
        LayerStep("setActiveLayer", "", setActiveLayer(LState, id))

AddElementToLayer ==
    \E id \in LayerArgs, e \in ElementIds :
        LayerStep("addElementToLayer", id, addElementToLayer(LState, id, e))

AddElementToActiveLayer ==
    \E e \in ElementIds :
        LayerStep("addElementToActiveLayer", "", addElementToActiveLayer(LState, e))

RemoveElementFromLayer ==
    \E e \in ElementIds :
        LayerStep("removeElementFromLayer", "", removeElementFromLayer(LState, e))

MergeLayers ==
    \E s \in LayerArgs, t \in LayerArgs :
        LayerStep("mergeLayers", "", mergeLayers(LState, s, t))

DuplicateLayer ==
    \E id \in LayerArgs :
        LayerStep("duplicateLayer", "", duplicateLayer(LState, id))

ResetLayers ==
    LayerStep("reset", "", resetLayers(LState))

FromJSONLayers ==
    \E data \in JsonLayerData :
        LayerStep("fromJSON", "", fromJSONLayers(LState, data))

LayerNext ==
    \/ CreateLayer
    \/ DeleteLayer
    \/ ReorderLayer
    \/ AddElementToLayer
    \/ MergeLayers
    \/ DuplicateLayer
    \/ ResetLayers
    \/ FromJSONLayers

SpecLayer == LayerInit /\ [][LayerNext]_vars

\* Only layers are created and locked and elements assigned to them.
LayerAddNext ==
    \/ CreateLayer
    \/ SetLayerLock
    \/ AddElementToLayer
    \/ AddElementToActiveLayer

SpecLayerAdd == LayerInit /\ [][LayerAddNext]_vars

(***************************************************************************)
(* Claims about the Layer Manager.                                         *)
(***************************************************************************)
\* Number of times elementId occurs in a membership list.
Occurrences(els, elementId) == Cardinality({i \in DOMAIN els : els[i] = elementId})

RECURSIVE Memberships(_, _)
Memberships(ls, elementId) ==
    IF ls = <<>> THEN 0
    ELSE Occurrences(Head(ls).elements, elementId) + Memberships(Tail(ls), elementId)

\* C7: whatever layers are created and locked and whatever elements are
\* assigned to layers, every element id is a member of at most one layer.
C7_SingleMembership ==
    \A e \in ElementIds : Memberships(layers, e) <= 1

\* C7 witness: an element was just moved from one layer to another, which
\* now holds it while a locked layer holds the other element.
C7_Witness ==
    /\ lastLayerOp.op = "addElementToLayer"
    /\ lastLayerOp.success
    /\ Len(layers) >= 2
    /\ \E i, j \in DOMAIN layers :
          /\ i # j
          /\ layers[i].id = lastLayerOp.arg
          /\ layers[i].elements = <<"rect-1">>
          /\ layers[j].locked
          /\ layers[j].elements = <<"circle-1">>

\* C8: there is always at least one layer.
C8_AtLeastOneLayer == Len(layers) >= 1

\* C8 witness: a serialized state with no layer was restored, and a layer
\* was created in its place.
C8_Witness ==
    /\ lastLayerOp.op = "fromJSON"
    /\ Len(layers) = 1
    /\ layers[1].id # "layer-1"
    /\ activeLayerId = layers[1].id

\* C9: deleteLayer on the only layer fails and changes neither the layer
\* list, nor a membership list, nor the active layer.
C9_LastLayerProtection ==
    [][ ( /\ lastLayerOp'.op = "deleteLayer"
          /\ Len(layers) = 1
          /\ lastLayerOp'.arg = layers[1].id )
        => ( /\ ~lastLayerOp'.success
             /\ layers' = layers
             /\ activeLayerId' = activeLayerId )
      ]_vars

\* C9 witness: the only layer, holding an element, was the target of a
\* deleteLayer call and is still there.
C9_Witness ==
    /\ lastLayerOp.op = "deleteLayer"
    /\ Len(layers) = 1
    /\ lastLayerOp.arg = layers[1].id
    /\ layers[1].elements # <<>>
    /\ activeLayerId = layers[1].id

(***************************************************************************)
(* The tools (tools/canvas.ts, tools/path.ts, tools/object.ts,             *)
(* tools/history.ts) on the current document, the current Layer Manager    *)
(* and the current History Manager.                                        *)
(***************************************************************************)
Tmp == <<"tmp", 0>>

\* doc.toJSON(): a deep copy of the live document, handed to record().
toJSON(hp) == Put(hp, Tmp, JsonClone(hp[Live]))

DrawTypes == {"rect", "circle", "path"}

\* Values of the optional id argument of a tool; "" stands for an omitted one.
SuppliedIds == {"", "rect-1"}

\* Object ids a caller may pass: those in the document and one that is not.
AbsentObject == "none-0"
ObjectArgs == Range(collectAllIds(heap[Live].elements)) \cup {AbsentObject}

\* Where the call sequence stands with respect to the sequence
\* create, draw rect, draw circle, undo, redo.
ScenarioStep(s, tool, arg) ==
    IF tool = "svg_create" THEN "fresh"
    ELSE IF s = "fresh" /\ tool = "draw" /\ arg = "rect" THEN "rect"
    ELSE IF s = "rect" /\ tool = "draw" /\ arg = "circle" THEN "rect_circle"
    ELSE IF s = "rect_circle" /\ tool = "history_undo" /\ arg = "1" THEN "undone"
    ELSE IF s = "undone" /\ tool = "history_redo" /\ arg = "1" THEN "redone"
    ELSE "off"

ToolInit ==
    /\ HistoryFresh
    /\ maxEntries = DefaultMaxEntries
    /\ LayerFresh
    /\ scenario = "fresh"

\* What history_undo and history_redo were called with: the steps, the cursor
\* they started from and, for a redo that directly follows an undo of the
\* same number of steps, the cursor that undo started from.
ToolProbe(tool, arg) ==
    IF tool = "history_undo"
    THEN [tool |-> tool, arg |-> arg, from |-> currentIndex, undoFrom |-> -2]
    ELSE IF tool = "history_redo"
    THEN [tool |-> tool, arg |-> arg, from |-> currentIndex,
          undoFrom |-> IF probe.tool = "history_undo" /\ probe.arg = arg
                       THEN probe.from ELSE -2]
    ELSE NoProbe

\* The state a handler leaves: h the History Manager and the heap, m the
\* Layer Manager and the id counters.  Every handler that gets here has
\* changed the document (isDirty = true).
ToolCommit(h, m, tool, arg) ==
    /\ h.nextUuid <= MaxToolRecords
    /\ CountNodes(h.heap[Live].elements) <= MaxNodes
    /\ Install([h EXCEPT !.ret = NoRef])
    /\ layers' = m.layers
    /\ activeLayerId' = m.activeLayerId
    /\ counters' = m.counters
    /\ scenario' = ScenarioStep(scenario, tool, arg)
    /\ mgr' = [mgr EXCEPT !.isDirty = TRUE]
    /\ probe' = ToolProbe(tool, arg)
    /\ UNCHANGED <<maxEntries, isRecording, lastOp, lastLayerOp>>

\* A handler that threw before changing anything: an error result.
ToolError(tool, arg) ==
    /\ scenario' = ScenarioStep(scenario, tool, arg)
    /\ probe' = NoProbe
    /\ UNCHANGED <<heap, entries, snapshots, currentIndex, maxEntries, isRecording,
                   nextUuid, returned, lastOp, layers, activeLayerId, counters,
                   lastLayerOp, mgr>>

\* getHistoryManager().record(action, description, doc.toJSON()) with the
\* live document els.
ToolRecord(els, action) ==
    Record([HState EXCEPT !.heap = toJSON([heap EXCEPT ![Live] = Doc(els)])],
           isRecording, maxEntries, action, Tmp)

\* doc.fromJSON(state): the document is replaced by a deep copy and the id
\* counters are raised to the ids found in it.
RestoreDocument(h, c) ==
    IF h.ret = NoRef THEN [h |-> h, counters |-> c]
    ELSE LET d == JsonClone(h.heap[h.ret])
         IN  [h |-> [h EXCEPT !.heap = [h.heap EXCEPT ![Live] = d]],
              counters |-> syncCountersFromIds(c, collectAllIds(d.elements))]

\* svg_create: a new document (the id counters are reset), and a new Layer
\* Manager and History Manager on first use.
SvgCreate ==
    LET m == NewLayerManager(NoCounters)
    IN  /\ heap' = (Live :> EmptyDoc)
        /\ entries' = <<>>
        /\ snapshots' = <<>>
        /\ currentIndex' = -1
        /\ isRecording' = TRUE
        /\ nextUuid' = 0
        /\ returned' = NoRef
        /\ maxEntries' = DefaultMaxEntries
        /\ layers' = m.layers
        /\ activeLayerId' = m.activeLayerId
        /\ counters' = m.counters
        /\ scenario' = ScenarioStep(scenario, "svg_create", "")
        /\ mgr' = FreshManager
        /\ probe' = NoProbe
        /\ UNCHANGED <<lastOp, lastLayerOp>>

\* draw_path and the other drawing tools: create the element, add it to the
\* document and to the active layer, record.
Draw ==
    \E type \in DrawTypes, id \in SuppliedIds :
        LET f == createElement(counters, type, id)
            els == addElement(heap[Live].elements, f.el)
            m == addElementToActiveLayer([LState EXCEPT !.counters = f.counters], f.el.id)
        IN  \E hd \in {ToolRecord(els, "draw_" \o type)},
               md \in {m} :
                ToolCommit(hd, md, "draw", type)

\* object_delete
ObjectDelete ==
    \E objectId \in ObjectArgs :
        LET r == removeFromArray(heap[Live].elements, objectId)
            m == removeElementFromLayer(LState, objectId)
        IN  IF ~r.removed THEN ToolError("object_delete", "")
            ELSE \E hd \in {ToolRecord(r.els, "object_delete")},
                    md \in {m} :
                     ToolCommit(hd, md, "object_delete", "")

\* object_duplicate (duplicateElement: clone, append at the top level)
ObjectDuplicate ==
    \E objectId \in ObjectArgs :
        LET f == findElement(heap[Live].elements, objectId)
        IN  IF f = <<>> THEN ToolError("object_duplicate", "")
            ELSE LET c == cloneElement(counters, f[1])
                     els == addElement(heap[Live].elements, c.el)
                     m == addElementToActiveLayer([LState EXCEPT !.counters = c.counters],
                                                  c.el.id)
                 IN  \E hd \in {ToolRecord(els, "object_duplicate")},
                        md \in {m} :
                         ToolCommit(hd, md, "object_duplicate", "")

RECURSIVE removeAllFromLayers(_, _)
removeAllFromLayers(m, ids) ==
    IF ids = <<>> THEN m
    ELSE removeAllFromLayers(removeElementFromLayer(m, Head(ids)), Tail(ids))

ObjectIdLists ==
    {<<a>> : a \in ObjectArgs} \cup {<<a, b>> : a \in ObjectArgs, b \in ObjectArgs}

\* object_group on the document: the elements found for objectIds are
\* collected, each id is removed from the tree, and the collected objects
\* become the children of a new group appended at the top level.
\* found = FALSE when no id names an element (the handler throws).
groupElements(c, elements, objectIds, groupId) ==
    LET tagged == Tag(elements, 1).els
        found == collectObjects(tagged, objectIds)
        after == removeAll(tagged, <<>>, objectIds)
        now == after.detached @@ Nodes(after.els)
        children == [i \in 1..Len(found) |-> now[found[i]]]
        g == createGroup(c, Untag(children), groupId)
    IN  IF found = <<>>
        THEN [found |-> FALSE, counters |-> c, els |-> elements, id |-> ""]
        ELSE [found |-> TRUE, counters |-> g.counters,
              els |-> addElement(Untag(after.els), g.el), id |-> g.el.id]

\* object_group
ObjectGroup ==
    \E objectIds \in ObjectIdLists, groupId \in SuppliedIds :
        \E r \in {groupElements(counters, heap[Live].elements, objectIds, groupId)} :
            IF ~r.found THEN ToolError("object_group", "")
            ELSE LET m0 == removeAllFromLayers(LState, objectIds)
                     m == addElementToActiveLayer([m0 EXCEPT !.counters = r.counters], r.id)
                 IN  \E hd \in {ToolRecord(r.els, "object_group")},
                        md \in {m} :
                         ToolCommit(hd, md, "object_group", "")

RECURSIVE addAllToActiveLayer(_, _)
addAllToActiveLayer(m, ids) ==
    IF ids = <<>> THEN m
    ELSE addAllToActiveLayer(addElementToActiveLayer(m, Head(ids)), Tail(ids))

\* object_ungroup
ObjectUngroup ==
    \E groupId \in ObjectArgs :
        LET f == findElement(heap[Live].elements, groupId)
        IN  IF f = <<>> \/ f[1].type # "g" THEN ToolError("object_ungroup", "")
            ELSE LET pushed == heap[Live].elements \o f[1].children
                     r == removeFromArray(pushed, groupId)
                     m0 == addAllToActiveLayer(LState,
                                               [i \in 1..Len(f[1].children) |->
                                                   f[1].children[i].id])
                     m == removeElementFromLayer(m0, groupId)
                 IN  \E hd \in {ToolRecord(r.els, "object_ungroup")},
                        md \in {m} :
                         ToolCommit(hd, md, "object_ungroup", "")

\* history_undo
HistoryUndo ==
    \E steps \in 1..MaxSteps :
        IF ~canUndo(HState) THEN ToolError("history_undo", ToString(steps))
        ELSE LET r == RestoreDocument(Undo(HState, steps), counters)
             IN  \E hd \in {r.h},
                    md \in {[LState EXCEPT !.counters = r.counters]} :
                     ToolCommit(hd, md, "history_undo", ToString(steps))

\* history_redo
HistoryRedo ==
    \E steps \in 1..MaxSteps :
        IF ~canRedo(HState) THEN ToolError("history_redo", ToString(steps))
        ELSE LET r == RestoreDocument(Redo(HState, steps), counters)
             IN  \E hd \in {r.h},
                    md \in {[LState EXCEPT !.counters = r.counters]} :
                     ToolCommit(hd, md, "history_redo", ToString(steps))

ToolNext ==
    \/ SvgCreate
    \/ Draw
    \/ ObjectDelete
    \/ ObjectDuplicate
    \/ ObjectGroup
    \/ ObjectUngroup
    \/ HistoryUndo
    \/ HistoryRedo

SpecTool == ToolInit /\ [][ToolNext]_vars

(***************************************************************************)
(* Claims about the tools.                                                 *)
(***************************************************************************)
LiveTypes == [i \in DOMAIN heap[Live].elements |-> heap[Live].elements[i].type]

\* C2 (as claimed): on a fresh canvas, after a rectangle and then a circle
\* were drawn, undo leaves a document holding the rectangle and no circle,
\* and the redo that follows leaves a document holding both.
C2_DrawUndoRedo ==
    /\ scenario = "undone" => LiveTypes = <<"rect">>
    /\ scenario = "redone" => LiveTypes = <<"rect", "circle">>

\* No two elements of the tree, nested children included, share an identifier.
UniqueIds(els) ==
    LET ids == collectAllIds(els)
    IN  \A i, j \in DOMAIN ids : i # j => ids[i] # ids[j]

\* C10 (as claimed): the identifiers of the live document are unique.
C10_UniqueElementIds == UniqueIds(heap[Live].elements)

(***************************************************************************)
(* The element tree of one Document Manager driven through the factories,  *)
(* addElement, grouping and duplicateElement.                              *)
(***************************************************************************)
MaxCloneNodes == 4      \* elements in the tree when elements are duplicated

CloneTypes == {"rect", "circle"}

CloneInit ==
    /\ HistoryFresh
    /\ maxEntries = DefaultMaxEntries
    /\ LayerFresh
    /\ scenario = "off"

\* The element tree and the id counters after a call on the document.
TreeCommit(els, c, p) ==
    /\ CountNodes(els) <= MaxCloneNodes
    /\ heap' = [heap EXCEPT ![Live].elements = els]
    /\ counters' = c
    /\ mgr' = [mgr EXCEPT !.isDirty = TRUE]
    /\ probe' = p
    /\ UNCHANGED <<entries, snapshots, currentIndex, maxEntries, isRecording, nextUuid,
                   returned, lastOp, layers, activeLayerId, lastLayerOp, scenario>>

\* doc.addElement(createRect(..., {id})), with or without an id of the caller
AddNewElement ==
    \E type \in CloneTypes, id \in SuppliedIds :
        \E f \in {createElement(counters, type, id)} :
            TreeCommit(addElement(heap[Live].elements, f.el), f.counters,
                       [tool |-> "addElement", source |-> f.el, clone |-> f.el])

\* createGroup over elements of the tree, which leave their places
GroupElements ==
    \E objectIds \in ObjectIdLists, groupId \in SuppliedIds :
        \E r \in {groupElements(counters, heap[Live].elements, objectIds, groupId)} :
            /\ r.found
            /\ TreeCommit(r.els, r.counters,
                          [tool |-> "group", source |-> r.els[Len(r.els)],
                           clone |-> r.els[Len(r.els)]])

\* duplicateElement(id): the element is cloned and the clone appended
DuplicateElement ==
    \E id \in Range(collectAllIds(heap[Live].elements)) :
        \E f \in {findElement(heap[Live].elements, id)} :
            \E c \in {cloneElement(counters, f[1])} :
                TreeCommit(addElement(heap[Live].elements, c.el), c.counters,
                           [tool |-> "duplicateElement", source |-> f[1], clone |-> c.el])

CloneNext ==
    \/ AddNewElement
    \/ GroupElements
    \/ DuplicateElement

SpecClone == CloneInit /\ [][CloneNext]_vars

\* C11 (as claimed): the identifiers of a clone and of all its descendants
\* are disjoint from the identifiers of the element it was cloned from and of
\* all descendants of that element.
C11_CloneIdFreshness ==
    probe.tool = "duplicateElement" =>
        Range(collectAllIds(<<probe.clone>>)) \cap Range(collectAllIds(<<probe.source>>)) = {}

(***************************************************************************)
(* The Identifier Generator driven through generateId, syncCountersFromIds *)
(* and resetCounters.  probe.issued lists the identifiers handed out since *)
(* the last synchronisation or reset, probe.existing the identifiers the   *)
(* counters were synchronised with since the last reset, probe.before the  *)
(* counters before the call.                                               *)
(***************************************************************************)
MaxCounter == 4         \* generateId is called while the counter is below this
MaxIssued == 4          \* identifiers handed out between two synchronisations

IdKinds == {"rect", "circle"}

\* Identifiers found in a loaded document: generated ones and one of a caller.
ResyncIds == {MkId("rect", 1), MkId("rect", 3), MkId("circle", 2), "logo"}

ResyncLists ==
    {<<a>> : a \in ResyncIds} \cup {<<a, b>> : a \in ResyncIds, b \in ResyncIds}

IdProbe(tool, issued, existing) ==
    [tool |-> tool, issued |-> issued, existing |-> existing, before |-> counters]

IdInit ==
    /\ HistoryFresh
    /\ maxEntries = DefaultMaxEntries
    /\ LayerFresh
    /\ scenario = "off"

IdUnchanged ==
    UNCHANGED <<heap, entries, snapshots, currentIndex, maxEntries, isRecording, nextUuid,
                returned, lastOp, layers, activeLayerId, lastLayerOp, scenario, mgr>>

IssuedSoFar == IF probe.tool = "none" THEN <<>> ELSE probe.issued
ExistingSoFar == IF probe.tool = "none" THEN {} ELSE probe.existing

\* generateId(prefix)
ShortId ==
    \E prefix \in IdKinds :
        \E g \in {generateId(counters, prefix)} :
            /\ counters[prefix] < MaxCounter
            /\ Len(IssuedSoFar) < MaxIssued
            /\ counters' = g.counters
            /\ probe' = IdProbe("shortId", Append(IssuedSoFar, g.id), ExistingSoFar)
            /\ IdUnchanged

\* syncCountersFromIds(ids)
Resync ==
    \E ids \in ResyncLists :
        /\ counters' = syncCountersFromIds(counters, ids)
        /\ probe' = IdProbe("resync", <<>>, ExistingSoFar \cup Range(ids))
        /\ IdUnchanged

\* resetCounters()
ResetAll ==
    /\ counters' = NoCounters
    /\ probe' = IdProbe("reset", <<>>, {})
    /\ IdUnchanged

IdNext ==
    \/ ShortId
    \/ Resync
    \/ ResetAll

SpecIds == IdInit /\ [][IdNext]_vars

KindOf(id) == ParseId(id)[1]
SuffixOf(id) == ParseId(id)[2]

\* C12: the identifiers handed out by consecutive generateId calls, with no
\* synchronisation or reset in between, are pairwise distinct, and those of
\* one kind have strictly increasing numeric suffixes, whatever calls for
\* other kinds lie between them.
C12_SequentialIds ==
    \A i, j \in DOMAIN IssuedSoFar :
        i < j =>
            /\ IssuedSoFar[i] # IssuedSoFar[j]
            /\ KindOf(IssuedSoFar[i]) = KindOf(IssuedSoFar[j])
                   => SuffixOf(IssuedSoFar[i]) < SuffixOf(IssuedSoFar[j])

\* C12 witness: three identifiers of one kind were handed out with an
\* identifier of another kind between them.
C12_Witness ==
    /\ probe.tool = "shortId"
    /\ Len(probe.issued) = 4
    /\ KindOf(probe.issued[1]) = "rect"
    /\ KindOf(probe.issued[2]) = "circle"
    /\ KindOf(probe.issued[3]) = "rect"
    /\ KindOf(probe.issued[4]) = "rect"

\* C13: after syncCountersFromIds(existingIds) the counter of every kind is
\* at least the number of every existing identifier kind-number, the call
\* lowers no counter, and no identifier handed out afterwards is one of the
\* existing identifiers.
C13_ResyncNoCollision ==
    /\ \A id \in ExistingSoFar : KindOf(id) # "" => counters[KindOf(id)] >= SuffixOf(id)
    /\ probe.tool = "resync" => \A p \in Prefixes : counters[p] >= probe.before[p]
    /\ Range(IssuedSoFar) \cap ExistingSoFar = {}

\* C13 witness: the counters were synchronised with rect-3 and the next
\* rectangle identifier handed out is rect-4.
C13_Witness ==
    /\ probe.tool = "shortId"
    /\ probe.before["rect"] = 3
    /\ probe.existing = {MkId("rect", 3), "logo"}
    /\ probe.issued = <<MkId("rect", 4)>>

(***************************************************************************)
(* Document Manager (core/document.ts) with the whole document: the        *)
(* document object is [config, defs, elements]; the raw buckets, the file  *)
(* path and the dirty flag are fields of the manager beside it.            *)
(* Markup (utils/svg-parser.ts) is a sequence of tokens: tags and pieces   *)
(* of text; white space is not represented.                                *)
(***************************************************************************)
MaxDocElements == 2     \* structured elements in the document
MaxFragments == 2       \* fragments in each raw bucket

\* background "" stands for undefined
Config(width, height, background) ==
    [width |-> width, height |-> height, background |-> background]

\* createEmptyDocument(config); resetCounters() is part of the callers below
createEmptyDocument(config) ==
    [config |-> config, defs |-> [gradients |-> <<>>], elements |-> <<>>]

\* new SVGDocumentManager(): 800 x 600, no background
DefaultConfig == Config(800, 600, "")

\* The manager as a record dm = [doc, mgr, counters].
DState == [doc |-> heap[Live], mgr |-> mgr, counters |-> counters]

\* create(width, height, {background}): nothing is checked; the raw buckets
\* are left as they are.
create(dm, width, height, background) ==
    [doc |-> createEmptyDocument(Config(width, height, background)),
     mgr |-> [dm.mgr EXCEPT !.filePath = "", !.isDirty = FALSE],
     counters |-> NoCounters]

\* addGradient(gradient)
addGradient(dm, gradientId) ==
    [dm EXCEPT !.doc.defs.gradients = Append(@, gradientId), !.mgr.isDirty = TRUE]

\* The text of a raw fragment is a sequence of tokens, an id attribute being
\* a token of its own.
IdAttr(id) == "id=\"" \o id \o "\""

\* The ids that occur in the fragments of the model.
FragmentIds == {"arrow", "fade", "stop-1", "watermark-text", "watermark-pattern"}

\* d.includes(`id="${id}"`)
includesId(body, id) == \E i \in DOMAIN body : body[i] = IdAttr(id)

\* content.match(/id="([^"]+)"/): the id of the first id attribute, "" for
\* no match.
matchId(body) ==
    LET at == {i \in DOMAIN body : \E x \in FragmentIds : body[i] = IdAttr(x)}
    IN  IF at = {} THEN ""
        ELSE CHOOSE x \in FragmentIds :
                 \E i \in at : body[i] = IdAttr(x) /\ \A j \in at : i <= j

\* A raw fragment is [id, body]: what the match finds in it and its text.
Fragment(body) == [id |-> matchId(body), body |-> body]

\* rawDefs.filter(d => !d.includes(`id="${id}"`))
WithoutId(frags, id) == SelectSeq(frags, LAMBDA d : ~includesId(d.body, id))

\* addDefs(content)
addDefs(dm, content) ==
    [dm EXCEPT !.mgr.rawDefs =
                   Append(IF content.id # "" THEN WithoutId(@, content.id) ELSE @, content),
               !.mgr.isDirty = TRUE]

\* addRawElement(content)
addRawElement(dm, content) ==
    [dm EXCEPT !.mgr.rawElements = Append(@, content), !.mgr.isDirty = TRUE]

\* save(path): the files written are not part of the model
save(dm, path) == [dm EXCEPT !.mgr.filePath = path, !.mgr.isDirty = FALSE]

\* fromJSON(data)
fromJSON(dm, data) ==
    LET d == JsonClone(data)
    IN  [doc |-> d, mgr |-> [dm.mgr EXCEPT !.isDirty = TRUE],
         counters |-> syncCountersFromIds(dm.counters, collectAllIds(d.elements))]

\* new SVGDocumentManager()
NewDocumentManager ==
    [doc |-> createEmptyDocument(DefaultConfig), mgr |-> FreshManager,
     counters |-> NoCounters]

\* elementToSVG
RECURSIVE elementsToSVG(_)
elementsToSVG(els) ==
    IF els = <<>> THEN <<>>
    ELSE (IF Head(els).type = "g"
          THEN <<"<g " \o Head(els).id \o ">">> \o elementsToSVG(Head(els).children)
               \o <<"</g>">>
          ELSE <<"<" \o Head(els).type \o " " \o Head(els).id \o "/>">>)
         \o elementsToSVG(Tail(els))

\* documentToSVG(doc, pretty)
documentToSVG(doc) ==
    <<"<?xml?>", "<svg>">>
    \o (IF doc.defs.gradients # <<>>
        THEN <<"<defs>">>
             \o [i \in 1..Len(doc.defs.gradients) |->
                    "<linearGradient " \o doc.defs.gradients[i] \o "/>"]
             \o <<"</defs>">>
        ELSE <<>>)
    \o (IF doc.config.background # "" THEN <<"<rect fill=" \o doc.config.background \o "/>">>
        ELSE <<>>)
    \o elementsToSVG(doc.elements)
    \o <<"</svg>">>

\* rawDefs.join('\n')
RECURSIVE Join(_)
Join(frags) == IF frags = <<>> THEN <<>> ELSE Head(frags).body \o Join(Tail(frags))

\* The replacement text of String.prototype.replace: "$&" in it stands for
\* the matched text.
RECURSIVE Expand(_, _)
Expand(replacement, matched) ==
    IF replacement = <<>> THEN <<>>
    ELSE <<IF Head(replacement) = "$&" THEN matched ELSE Head(replacement)>>
         \o Expand(Tail(replacement), matched)

\* svg.replace(pattern, replacement): the first occurrence is replaced
ReplaceFirst(svg, pattern, replacement) ==
    IF \A i \in DOMAIN svg : svg[i] # pattern THEN svg
    ELSE LET at == CHOOSE i \in DOMAIN svg :
                       svg[i] = pattern /\ \A j \in 1..(i - 1) : svg[j] # pattern
         IN  SubSeq(svg, 1, at - 1) \o Expand(replacement, pattern)
             \o SubSeq(svg, at + 1, Len(svg))

\* exportSVG(options)
exportSVG(dm) ==
    LET svg == documentToSVG(dm.doc)
        rawDefsContent == Join(dm.mgr.rawDefs)
        withDefs ==
            IF dm.mgr.rawDefs = <<>> THEN svg
            ELSE IF \E i \in DOMAIN svg : svg[i] = "</defs>"
            THEN ReplaceFirst(svg, "</defs>", rawDefsContent \o <<"</defs>">>)
            ELSE ReplaceFirst(svg, "<svg>",
                              <<"<svg>", "<defs>">> \o rawDefsContent \o <<"</defs>">>)
    IN  IF dm.mgr.rawElements = <<>> THEN withDefs
        ELSE ReplaceFirst(withDefs, "</svg>", Join(dm.mgr.rawElements) \o <<"</svg>">>)

(***************************************************************************)
(* The Document Manager driven through its own calls.  probe.tool names    *)
(* the last call, probe.arg its arguments, probe.before the manager before *)
(* the call and probe.out the markup an export returned.                   *)
(***************************************************************************)
\* <<width, height>> a caller may pass
Sizes == {<<800, 600>>, <<0, 600>>, <<800, -1>>}
Backgrounds == {"", "white"}
GradientIds == {"gradient-1"}
Paths == {"a.svg"}

\* Fragments for the defs bucket: a marker with an id, an embedded svg.
DefsFragments ==
    {Fragment(<<"<marker", IdAttr("arrow"), "/>">>),
     Fragment(<<"<symbol>", "<svg>", "</svg>", "</symbol>">>)}

\* Fragments for the elements bucket: a text, a text holding "$&".
ElementFragments ==
    {Fragment(<<"<text>", "hello", "</text>">>),
     Fragment(<<"<text>", "$&", "</text>">>)}

NoDState == [doc |-> createEmptyDocument(DefaultConfig), mgr |-> FreshManager,
             counters |-> NoCounters]

DocProbe(tool, arg, out) == [tool |-> tool, arg |-> arg, before |-> DState, out |-> out]

DocInit ==
    /\ heap = (Live :> createEmptyDocument(DefaultConfig))
    /\ entries = <<>>
    /\ snapshots = <<>>
    /\ currentIndex = -1
    /\ isRecording = TRUE
    /\ nextUuid = 0
    /\ returned = NoRef
    /\ lastOp = NoCall
    /\ mgr = FreshManager
    /\ probe = [tool |-> "none", arg |-> <<>>, before |-> NoDState, out |-> <<>>]
    /\ maxEntries = DefaultMaxEntries
    /\ LayerFresh
    /\ scenario = "off"

\* The manager after a call.
DocCommit(dm, p) ==
    /\ Len(dm.doc.elements) <= MaxDocElements
    /\ Len(dm.mgr.rawDefs) <= MaxFragments
    /\ Len(dm.mgr.rawElements) <= MaxFragments
    /\ heap' = [heap EXCEPT ![Live] = dm.doc]
    /\ mgr' = dm.mgr
    /\ counters' = dm.counters
    /\ probe' = p
    /\ UNCHANGED <<entries, snapshots, currentIndex, maxEntries, isRecording, nextUuid,
                   returned, lastOp, layers, activeLayerId, lastLayerOp, scenario>>

\* createDocument(width, height, background) on the current manager
CreateDocument ==
    \E size \in Sizes, background \in Backgrounds :
        \E dm \in {create(DState, size[1], size[2], background)} :
            DocCommit(dm, DocProbe("create", size, <<>>))

\* doc.addElement(createRect(...))
DocAddElement ==
    \E f \in {createElement(counters, "rect", "")} :
        DocCommit([DState EXCEPT !.doc.elements = addElement(@, f.el),
                                 !.counters = f.counters, !.mgr.isDirty = TRUE],
                  DocProbe("addElement", <<>>, <<>>))

DocAddGradient ==
    \E g \in GradientIds :
        /\ heap[Live].defs.gradients = <<>>
        /\ DocCommit(addGradient(DState, g), DocProbe("addGradient", <<>>, <<>>))

DocAddDefs ==
    \E content \in DefsFragments :
        \E dm \in {addDefs(DState, content)} :
            DocCommit(dm, DocProbe("addDefs", <<>>, <<>>))

DocAddRawElement ==
    \E content \in ElementFragments :
        \E dm \in {addRawElement(DState, content)} :
            DocCommit(dm, DocProbe("addRawElement", <<>>, <<>>))

DocSave ==
    \E path \in Paths :
        \E dm \in {save(DState, path)} : DocCommit(dm, DocProbe("save", <<>>, <<>>))

\* exportSVG(): nothing is assigned
DocExportSVG ==
    \E out \in {exportSVG(DState)} : DocCommit(DState, DocProbe("exportSVG", <<>>, out))

\* doc.fromJSON(doc.toJSON()) on the manager that holds the document
RoundTripInPlace ==
    \E data \in {JsonClone(heap[Live])} :
        \E dm \in {fromJSON(DState, data)} :
            DocCommit(dm, DocProbe("roundTrip", <<"same">>, <<>>))

\* other = new SVGDocumentManager(); other.fromJSON(doc.toJSON());
\* setCurrentDocument(other).  The constructor resets the id counters.
RoundTripElsewhere ==
    \E data \in {JsonClone(heap[Live])} :
        \E dm \in {fromJSON(NewDocumentManager, data)} :
            DocCommit(dm, DocProbe("roundTrip", <<"other">>, <<>>))

DocNext ==
    \/ CreateDocument
    \/ DocAddElement
    \/ DocAddGradient
    \/ DocAddDefs
    \/ DocAddRawElement
    \/ DocSave
    \/ DocExportSVG
    \/ RoundTripInPlace
    \/ RoundTripElsewhere

SpecDocument == DocInit /\ [][DocNext]_vars

\* C14 (as claimed): after exporting the document state with toJSON and
\* loading it with fromJSON, configuration, defs, elements and both raw
\* buckets equal those of the exported document, and synchronising the id
\* counters with the loaded identifiers once more changes nothing.
C14_RoundTrip ==
    probe.tool = "roundTrip" =>
        /\ heap[Live] = probe.before.doc
        /\ mgr.rawDefs = probe.before.mgr.rawDefs
        /\ mgr.rawElements = probe.before.mgr.rawElements
        /\ syncCountersFromIds(counters, collectAllIds(heap[Live].elements)) = counters

\* C16 (as claimed): after createCanvas the live document has no elements,
\* empty defs collections and empty raw buckets, and an export right after it
\* holds nothing but the canvas of the new configuration.
C16_CreateEmpties ==
    probe.tool = "create" =>
        /\ heap[Live].elements = <<>>
        /\ heap[Live].defs.gradients = <<>>
        /\ mgr.rawDefs = <<>>
        /\ mgr.rawElements = <<>>
        /\ exportSVG(DState) = documentToSVG(createEmptyDocument(heap[Live].config))

\* C17 (as claimed): createCanvas with width <= 0 or height <= 0 fails and
\* leaves the live document, the file path and the dirty flag as they were.
C17_CreateValidation ==
    (probe.tool = "create" /\ (probe.arg[1] <= 0 \/ probe.arg[2] <= 0)) =>
        /\ heap[Live] = probe.before.doc
        /\ mgr.filePath = probe.before.mgr.filePath
        /\ mgr.isDirty = probe.before.mgr.isDirty

\* C19 (as claimed): an export leaves the manager as it was; its output ends
\* with the raw-element fragments, in insertion order and as they were
\* added, right before the closing root tag and after everything else; the
\* raw-defs fragments stand, in insertion order and as they were added,
\* inside a defs block of the output.
C19_ExportSplicing ==
    probe.tool = "exportSVG" =>
        LET out == probe.out
            re == Join(mgr.rawElements)
            rd == Join(mgr.rawDefs)
        IN  /\ DState = probe.before
            /\ Len(out) > Len(re)
            /\ out[Len(out)] = "</svg>"
            /\ SubSeq(out, Len(out) - Len(re), Len(out) - 1) = re
            /\ SubSeq(out, 1, Len(out) - Len(re) - 1) \o <<"</svg>">>
                   = exportSVG([DState EXCEPT !.mgr.rawElements = <<>>])
            /\ rd # <<>> =>
                   \E i, j \in DOMAIN out :
                       /\ i < j
                       /\ out[i] = "<defs>"
                       /\ out[j] = "</defs>"
                       /\ \E k \in (i + 1)..(j - Len(rd)) :
                              SubSeq(out, k, k + Len(rd) - 1) = rd

\* The steps history_undo or history_redo was last called with.
ProbeSteps == CHOOSE n \in 1..MaxSteps : ToString(n) = probe.arg

\* C20 (as claimed): history_undo with steps n from the cursor c >= n leaves
\* the document equal to the snapshot of entry c - n, and a history_redo
\* with the same n right after it leaves the document equal to the snapshot
\* of entry c.
C20_UndoCancelsN ==
    /\ (probe.tool = "history_undo" /\ probe.from >= ProbeSteps) =>
           heap[Live] = SnapshotDoc(probe.from - ProbeSteps + 1)
    /\ (probe.tool = "history_redo" /\ probe.undoFrom >= ProbeSteps) =>
           heap[Live] = SnapshotDoc(probe.undoFrom + 1)

(***************************************************************************)
(* The Layer Manager driven through createLayer, addElementToLayer and     *)
(* mergeLayers.  probe.source and probe.target are the arguments of the    *)
(* last mergeLayers call; probe.stage follows the calls createLayer,       *)
(* addElementToLayer(L2, rect-1), mergeLayers(L2, layer-1) made in this    *)
(* order on a new Layer Manager, probe.l2 being the layer created.         *)
(***************************************************************************)
IsoStage(tool, a, b, m) ==
    IF probe.stage = "fresh" /\ tool = "createLayer" /\ m.success
    THEN [stage |-> "created", l2 |-> m.layerId]
    ELSE IF /\ probe.stage = "created" /\ tool = "addElementToLayer" /\ m.success
            /\ a = probe.l2 /\ b = "rect-1"
    THEN [stage |-> "moved", l2 |-> probe.l2]
    ELSE IF /\ probe.stage = "moved" /\ tool = "mergeLayers"
            /\ a = probe.l2 /\ b = "layer-1"
    THEN [stage |-> "merged", l2 |-> probe.l2]
    ELSE [stage |-> "off", l2 |-> NoLayer]

IsoInit ==
    /\ heap = (Live :> EmptyDoc)
    /\ entries = <<>>
    /\ snapshots = <<>>
    /\ currentIndex = -1
    /\ isRecording = TRUE
    /\ nextUuid = 0
    /\ returned = NoRef
    /\ lastOp = NoCall
    /\ mgr = FreshManager
    /\ probe = [tool |-> "none", source |-> NoLayer, target |-> NoLayer,
                stage |-> "fresh", l2 |-> NoLayer]
    /\ maxEntries = DefaultMaxEntries
    /\ LayerFresh
    /\ scenario = "off"

IsoStep(tool, a, b, m) ==
    /\ WithinLayerBounds(m)
    /\ InstallLayers(tool, a, m)
    /\ probe' = [tool |-> tool,
                 source |-> IF tool = "mergeLayers" THEN a ELSE NoLayer,
                 target |-> IF tool = "mergeLayers" THEN b ELSE NoLayer,
                 stage |-> IsoStage(tool, a, b, m).stage,
                 l2 |-> IsoStage(tool, a, b, m).l2]
    /\ UNCHANGED <<heap, entries, snapshots, currentIndex, maxEntries, isRecording,
                   nextUuid, returned, lastOp, scenario, mgr>>

IsoCreateLayer ==
    \E m \in {createLayer(LState, -1)} : IsoStep("createLayer", "", "", m)

IsoAddElementToLayer ==
    \E id \in LayerArgs, e \in ElementIds :
        \E m \in {addElementToLayer(LState, id, e)} : IsoStep("addElementToLayer", id, e, m)

IsoMergeLayers ==
    \E s \in LayerArgs, t \in LayerArgs :
        \E m \in {mergeLayers(LState, s, t)} : IsoStep("mergeLayers", s, t, m)

IsoNext ==
    \/ IsoCreateLayer
    \/ IsoAddElementToLayer
    \/ IsoMergeLayers

SpecLayerMerge == IsoInit /\ [][IsoNext]_vars

\* C18: a mergeLayers(source, target) that succeeds leaves the layers as
\* they were but for the target, whose membership list is followed by the
\* source's, and the source, which is gone; and after createLayer (L2),
\* addElementToLayer(L2, rect-1) and mergeLayers(L2, layer-1) on a new Layer
\* Manager the merge has succeeded, layer-1 is the only layer and rect-1 is
\* one of its members.
C18_MergeLayers ==
    [][ /\ (probe'.tool = "mergeLayers" /\ lastLayerOp'.success) =>
               LET s == LayerIndex(layers, probe'.source)
                   t == LayerIndex(layers, probe'.target)
               IN  /\ s # 0 /\ t # 0 /\ s # t
                   /\ layers' = RemoveAt([layers EXCEPT ![t].elements =
                                             layers[t].elements \o layers[s].elements], s)
                   /\ ~HasLayer(layers', probe'.source)
        /\ probe'.stage = "merged" =>
               /\ lastLayerOp'.success
               /\ Len(layers') = 1
               /\ layers'[1].id = "layer-1"
               /\ ~HasLayer(layers', probe'.l2)
               /\ IndexOf(layers'[1].elements, "rect-1") # 0
      ]_vars

\* C18 witness: the three calls were made on a new Layer Manager, the merge
\* was that of layer-2 into layer-1, and layer-1 alone is left, holding
\* rect-1.
C18_Witness ==
    /\ probe.stage = "merged"
    /\ probe.tool = "mergeLayers"
    /\ probe.source = "layer-2"
    /\ probe.target = "layer-1"
    /\ lastLayerOp.success
    /\ layers = <<Layer("layer-1", FALSE, <<"rect-1">>)>>

(***************************************************************************)
(* Tools that draw, add raw fragments and record, and the history tools    *)
(* that restore (tools/watermark.ts, tools/history.ts).  probe.atRecord    *)
(* keeps, for every history entry, the state of the Document Manager at    *)
(* the time the entry was recorded: the document and both raw buckets.     *)
(***************************************************************************)
FullState(doc, mg) == [doc |-> doc, rawDefs |-> mg.rawDefs, rawElements |-> mg.rawElements]

\* The fragments watermark_text adds: the text, or the pattern and the
\* rectangle filled with it.
WatermarkFragments ==
    [text |-> Fragment(<<"<text", IdAttr("watermark-text"), ">", "draft", "</text>">>),
     pattern |-> Fragment(
                          <<"<pattern", IdAttr("watermark-pattern"), ">", "draft", "</pattern>">>),
     rect |-> Fragment(<<"<rect", IdAttr("watermark-text"), "/>">>)]

RestoreInit ==
    /\ heap = (Live :> createEmptyDocument(DefaultConfig))
    /\ entries = <<>>
    /\ snapshots = <<>>
    /\ currentIndex = -1
    /\ isRecording = TRUE
    /\ nextUuid = 0
    /\ returned = NoRef
    /\ lastOp = NoCall
    /\ mgr = FreshManager
    /\ probe = [tool |-> "none", atRecord |-> <<>>]
    /\ maxEntries = DefaultMaxEntries
    /\ LayerFresh
    /\ scenario = "off"

\* The state a handler leaves: h the History Manager and the heap, m the
\* Layer Manager and the id counters, mg the fields of the Document Manager.
RestoreInstall(h, m, mg, tool) ==
    /\ h.nextUuid <= MaxToolRecords
    /\ Len(mg.rawDefs) <= MaxFragments
    /\ Len(mg.rawElements) <= MaxFragments
    /\ Install([h EXCEPT !.ret = NoRef])
    /\ layers' = m.layers
    /\ activeLayerId' = m.activeLayerId
    /\ counters' = m.counters
    /\ mgr' = mg
    /\ probe' = [tool |-> tool,
                 atRecord |-> [id \in {h.entries[i].id : i \in DOMAIN h.entries} |->
                                  IF id \in DOMAIN probe.atRecord THEN probe.atRecord[id]
                                  ELSE FullState(h.heap[Live], mg)]]
    /\ UNCHANGED <<maxEntries, isRecording, lastOp, lastLayerOp, scenario>>

\* The same for the handlers that add one element or fragment at a time.
RestoreCommit(h, m, mg, tool) ==
    /\ Len(h.heap[Live].elements) <= MaxDocElements
    /\ RestoreInstall(h, m, mg, tool)

\* A handler that returned an error before changing anything.
RestoreError ==
    /\ probe' = [probe EXCEPT !.tool = "error"]
    /\ UNCHANGED <<heap, entries, snapshots, currentIndex, maxEntries, isRecording,
                   nextUuid, returned, lastOp, layers, activeLayerId, counters,
                   lastLayerOp, scenario, mgr>>

\* A plausible slip: the document is exported before the handler changes it.
RecordDocumentStale(doc, action) ==
    Record([HState EXCEPT !.heap = [toJSON(heap) EXCEPT ![Live] = doc]],
           isRecording, maxEntries, action, Tmp)

\* getHistoryManager().record(action, description, doc.toJSON()) with the
\* live document doc.
RecordDocument(doc, action) ==
    Record([HState EXCEPT !.heap = toJSON([heap EXCEPT ![Live] = doc])],
           isRecording, maxEntries, action, Tmp)

\* draw_rect
DrawRect ==
    \E f \in {createElement(counters, "rect", "")} :
        \E hd \in {RecordDocument([heap[Live] EXCEPT !.elements = addElement(@, f.el)],
                                  "draw_rect")},
           md \in {addElementToActiveLayer([LState EXCEPT !.counters = f.counters], f.el.id)} :
            RestoreCommit(hd, md, [mgr EXCEPT !.isDirty = TRUE], "draw_rect")

\* watermark_text: the fragments go to the raw buckets, then the document is
\* recorded.
WatermarkTextTool ==
    \E repeat \in BOOLEAN :
        \E dm \in {IF repeat
                   THEN addRawElement(addDefs(DState, WatermarkFragments.pattern),
                                      WatermarkFragments.rect)
                   ELSE addRawElement(DState, WatermarkFragments.text)} :
            \E hd \in {RecordDocument(heap[Live], "watermark_text")} :
                RestoreCommit(hd, LState, dm.mgr, "watermark_text")

\* history_undo
UndoTool ==
    \E steps \in 1..MaxSteps :
        IF ~canUndo(HState) THEN RestoreError
        ELSE \E r \in {RestoreDocument(Undo(HState, steps), counters)} :
                 RestoreCommit(r.h, [LState EXCEPT !.counters = r.counters],
                               [mgr EXCEPT !.isDirty = TRUE], "history_undo")

\* history_redo
RedoTool ==
    \E steps \in 1..MaxSteps :
        IF ~canRedo(HState) THEN RestoreError
        ELSE \E r \in {RestoreDocument(Redo(HState, steps), counters)} :
                 RestoreCommit(r.h, [LState EXCEPT !.counters = r.counters],
                               [mgr EXCEPT !.isDirty = TRUE], "history_redo")

\* history_goto
GotoTool ==
    \E historyIndex \in 0..MaxToolRecords :
        \E g \in {Goto(HState, historyIndex)} :
            IF g.ret = NoRef THEN RestoreError
            ELSE \E r \in {RestoreDocument(g, counters)} :
                     RestoreCommit(r.h, [LState EXCEPT !.counters = r.counters],
                                   [mgr EXCEPT !.isDirty = TRUE], "history_goto")

RestoreNext ==
    \/ DrawRect
    \/ WatermarkTextTool
    \/ UndoTool
    \/ RedoTool
    \/ GotoTool

SpecRestore == RestoreInit /\ [][RestoreNext]_vars

\* C15 (as claimed): after history_undo, history_redo or history_goto has
\* restored a snapshot, the document and both raw buckets equal those at the
\* time that snapshot was recorded, and so does the exported markup.
C15_FullStateRestoration ==
    probe.tool \in {"history_undo", "history_redo", "history_goto"} =>
        LET was == probe.atRecord[entries[Max(currentIndex, 0) + 1].id]
        IN  /\ FullState(heap[Live], mgr) = was
            /\ exportSVG(DState) = exportSVG([DState EXCEPT !.doc = was.doc,
                                                            !.mgr.rawDefs = was.rawDefs,
                                                            !.mgr.rawElements = was.rawElements])

(***************************************************************************)
(* The tools that change the document and record (tools/canvas.ts,         *)
(* tools/chart.ts), taken together with the drawing, watermark and history *)
(* tools above.                                                            *)
(***************************************************************************)
\* <<width, height>> the schemas of svg_create and svg_resize let through
ToolSizes == {<<400, 300>>}

\* svg_create: a new Document Manager, Layer Manager and History Manager
SvgCreateTool ==
    \E size \in ToolSizes, background \in {""} :
        \E dm \in {create(NewDocumentManager, size[1], size[2], background)},
           md \in {NewLayerManager(NoCounters)} :
            \E hd \in {[HState EXCEPT !.heap = (Live :> dm.doc), !.entries = <<>>,
                                       !.snapshots = <<>>, !.currentIndex = -1,
                                       !.nextUuid = 0]} :
                RestoreInstall(hd, md, dm.mgr, "svg_create")

\* resize(width, height, scaleContent)
resize(dm, width, height) ==
    [dm EXCEPT !.doc.config.width = width, !.doc.config.height = height,
               !.mgr.isDirty = TRUE]

\* setBackground(color)
setBackground(dm, color) ==
    [dm EXCEPT !.doc.config.background = color, !.mgr.isDirty = TRUE]

\* svg_resize
SvgResize ==
    \E size \in ToolSizes :
        \E dm \in {resize(DState, size[1], size[2])} :
            \E hd \in {RecordDocument(dm.doc, "resize")} :
                RestoreCommit(hd, LState, dm.mgr, "svg_resize")

\* svg_set_background
SvgSetBackground ==
    \E color \in Backgrounds :
        \E dm \in {setBackground(DState, color)} :
            \E hd \in {RecordDocument(dm.doc, "set_background")} :
                RestoreCommit(hd, LState, dm.mgr, "svg_set_background")

\* The elements chart_bar adds for one data item, horizontal, without title,
\* values or legend.
ChartBarElements == <<El("bg", "rect"), El("bar-0", "rect"), El("label-0", "text")>>

\* chart_bar: createDocument on the current manager, the elements, record.
\* The history and the layers are left as they are.
ChartBar ==
    \E size \in ToolSizes, backgroundColor \in {""} :
        \E dm \in {create(DState, size[1], size[2], backgroundColor)} :
            \E hd \in {RecordDocument([dm.doc EXCEPT !.elements = ChartBarElements],
                                      "chart_bar")} :
                RestoreInstall(hd, [LState EXCEPT !.counters = dm.counters],
                               [dm.mgr EXCEPT !.isDirty = TRUE], "chart_bar")

\* watermark_text with repeat: false
WatermarkTextOnce ==
    \E dm \in {addRawElement(DState, WatermarkFragments.text)} :
        \E hd \in {RecordDocument(heap[Live], "watermark_text")} :
            RestoreCommit(hd, LState, dm.mgr, "watermark_text")

RecordedNext ==
    \/ SvgCreateTool
    \/ DrawRect
    \/ SvgResize
    \/ SvgSetBackground
    \/ ChartBar
    \/ WatermarkTextOnce
    \/ UndoTool
    \/ RedoTool
    \/ GotoTool

SpecRecorded == RestoreInit /\ [][RecordedNext]_vars

\* The tools that change the document and are to record it.
RecordingTools == {"draw_rect", "svg_resize", "svg_set_background", "chart_bar",
                   "watermark_text"}

MaxListeners == 2
MaxAttrCalls == 2

ListenerNames == {"a", "b"}
ListenerKinds == {"plain", "once"}

\* elementId "" stands for an event without elementId
Event(type, elementId) == [type |-> type, elementId |-> elementId]

\* removeEventListener(listener)
removeEventListener(ls, listener) ==
    IF IndexOf(ls, listener) # 0 THEN RemoveAt(ls, IndexOf(ls, listener)) ELSE ls

\* for (const listener of this.listeners) listener(event): the array
\* iterator reads this.listeners[i] while i is below the length the array
\* has at that time.
RECURSIVE emitFrom(_, _, _, _)
emitFrom(ls, i, event, log) ==
    IF i > Len(ls) THEN [listeners |-> ls, log |-> log]
    ELSE emitFrom(IF ls[i].kind = "once" THEN removeEventListener(ls, ls[i]) ELSE ls,
                  i + 1, event,
                  Append(log, <<ls[i].name, event.type, event.elementId>>))

\* emit(event)
emit(dm, event) ==
    LET r == emitFrom(dm.mgr.listeners, 1, event, <<>>)
    IN  [dm |-> [dm EXCEPT !.mgr.listeners = r.listeners], log |-> r.log]

ListenInit ==
    /\ heap = (Live :> createEmptyDocument(DefaultConfig))
    /\ entries = <<>>
    /\ snapshots = <<>>
    /\ currentIndex = -1
    /\ isRecording = TRUE
    /\ nextUuid = 0
    /\ returned = NoRef
    /\ lastOp = NoCall
    /\ mgr = [rawDefs |-> <<>>, rawElements |-> <<>>, filePath |-> "", isDirty |-> FALSE,
              listeners |-> <<>>]
    /\ probe = [tool |-> "none", ok |-> TRUE, type |-> "", elementId |-> "",
                before |-> <<>>, events |-> <<>>]
    /\ maxEntries = DefaultMaxEntries
    /\ LayerFresh
    /\ scenario = "off"

\* A call that changed the manager and then emitted event;
\* r is what emit returned.
Notified(tool, r, event) ==
    DocCommit(r.dm, [tool |-> tool, ok |-> TRUE, type |-> event.type,
                     elementId |-> event.elementId, before |-> mgr.listeners,
                     events |-> r.log])

\* A call that found nothing and returned false.
NotFound(tool) ==
    DocCommit(DState, [tool |-> tool, ok |-> FALSE, type |-> "", elementId |-> "",
                       before |-> mgr.listeners, events |-> <<>>])

ListenAddEventListener ==
    \E name \in ListenerNames, kind \in ListenerKinds :
        /\ Len(mgr.listeners) < MaxListeners
        /\ \A i \in DOMAIN mgr.listeners : mgr.listeners[i].name # name
        /\ DocCommit([DState EXCEPT !.mgr.listeners =
                                        Append(@, [name |-> name, kind |-> kind])],
                     [tool |-> "addEventListener", ok |-> TRUE, type |-> "",
                      elementId |-> "", before |-> mgr.listeners, events |-> <<>>])

ListenRemoveEventListener ==
    \E i \in DOMAIN mgr.listeners :
        DocCommit([DState EXCEPT !.mgr.listeners = removeEventListener(@, mgr.listeners[i])],
                  [tool |-> "removeEventListener", ok |-> TRUE, type |-> "",
                   elementId |-> "", before |-> mgr.listeners, events |-> <<>>])

\* create(width, height)
ListenCreate ==
    \E size \in ToolSizes :
        \E r \in {emit(create(DState, size[1], size[2], ""), Event("canvas-changed", ""))} :
            Notified("create", r, Event("canvas-changed", ""))

\* addElement(createRect(...))
ListenAddElement ==
    \E f \in {createElement(counters, "rect", "")} :
        \E r \in {emit([DState EXCEPT !.doc.elements = addElement(@, f.el),
                                       !.counters = f.counters, !.mgr.isDirty = TRUE],
                        Event("element-added", f.el.id))} :
            Notified("addElement", r, Event("element-added", f.el.id))

\* removeElement(id)
ListenRemoveElement ==
    \E id \in {MkId("rect", 1), MkId("rect", 2), AbsentObject} :
        \E x \in {removeFromArray(heap[Live].elements, id)} :
            IF x.removed
            THEN \E r \in {emit([DState EXCEPT !.doc.elements = x.els,
                                                !.mgr.isDirty = TRUE],
                                 Event("element-removed", id))} :
                     Notified("removeElement", r, Event("element-removed", id))
            ELSE NotFound("removeElement")

\* addDefs(content)
ListenAddDefs ==
    \E content \in DefsFragments :
        \E r \in {emit(addDefs(DState, content), Event("defs-changed", ""))} :
            Notified("addDefs", r, Event("defs-changed", ""))

\* addRawElement(content)
ListenAddRawElement ==
    \E content \in ElementFragments :
        \E r \in {emit(addRawElement(DState, content), Event("element-added", ""))} :
            Notified("addRawElement", r, Event("element-added", ""))

\* fromJSON(toJSON())
ListenFromJSON ==
    \E r \in {emit(fromJSON(DState, JsonClone(heap[Live])), Event("canvas-changed", ""))} :
        Notified("fromJSON", r, Event("canvas-changed", ""))

ListenNext ==
    \/ ListenAddEventListener
    \/ ListenRemoveEventListener
    \/ ListenCreate
    \/ ListenAddElement
    \/ ListenRemoveElement
    \/ ListenAddDefs
    \/ ListenAddRawElement
    \/ ListenFromJSON

SpecListeners == ListenInit /\ [][ListenNext]_vars

\* The operations of the Document Manager that notify.
NotifyingCalls == {"create", "addElement", "removeElement", "addDefs", "addRawElement",
                   "fromJSON"}

\* C22 (as claimed): a mutating operation that succeeded has delivered its
\* event once to every listener registered when it was called, in the order
\* of registration; one that found nothing has delivered nothing.
C22_ChangeNotification ==
    probe.tool \in NotifyingCalls =>
        IF probe.ok
        THEN probe.events = [i \in DOMAIN probe.before |->
                                <<probe.before[i].name, probe.type, probe.elementId>>]
        ELSE probe.events = <<>>

\* The ids of the entries of a history.
IdsOf(es) == {es[i].id : i \in DOMAIN es}

\* C23 (as claimed): a record() made while recording is paused changes
\* neither the entries, nor the snapshots, nor the cursor; endGroup leaves
\* recording resumed and adds exactly one entry, the last one, at which the
\* cursor is and whose snapshot equals the document passed to endGroup.
C23_GroupedRecording_Original ==
    [][ /\ (lastOp'.op = "record" /\ ~isRecording) =>
               /\ entries' = entries
               /\ snapshots' = snapshots
               /\ currentIndex' = currentIndex
               /\ \A id \in DOMAIN snapshots : heap'[snapshots[id]] = heap[snapshots[id]]
        /\ lastOp'.op = "endGroup" =>
               /\ isRecording'
               /\ IdsOf(entries') \ IdsOf(entries) = {nextUuid}
               /\ entries'[Len(entries')].id = nextUuid
               /\ currentIndex' = Len(entries') - 1
               /\ heap'[snapshots'[nextUuid]] = heap[lastOp'.doc]
      ]_vars

\* C23 (amended): the same for maxEntries >= 1; with maxEntries = 0 the
\* entry endGroup records is evicted at once and the history stays empty.
C23_GroupedRecording ==
    [][ /\ (lastOp'.op = "record" /\ ~isRecording) =>
               /\ entries' = entries
               /\ snapshots' = snapshots
               /\ currentIndex' = currentIndex
               /\ \A id \in DOMAIN snapshots : heap'[snapshots[id]] = heap[snapshots[id]]
        /\ lastOp'.op = "endGroup" =>
               /\ isRecording'
               /\ maxEntries >= 1 =>
                      /\ IdsOf(entries') \ IdsOf(entries) = {nextUuid}
                      /\ entries'[Len(entries')].id = nextUuid
                      /\ currentIndex' = Len(entries') - 1
                      /\ heap'[snapshots'[nextUuid]] = heap[lastOp'.doc]
               /\ maxEntries = 0 =>
                      /\ entries' = <<>>
                      /\ snapshots' = <<>>
                      /\ currentIndex' = -1
      ]_vars

\* C23 witness: endGroup has just recorded the document with the rectangle
\* as the second entry of a history that keeps at least two, and recording
\* is resumed.
C23_Witness ==
    /\ lastOp.op = "endGroup"
    /\ isRecording
    /\ maxEntries >= 2
    /\ Len(entries) = 2
    /\ currentIndex = 1
    /\ heap[snapshots[entries[2].id]] = Doc(<<El("rect-1", "rect")>>)

\* A membership list without elementId.
NotThis(els, elementId) == SelectSeq(els, LAMBDA x : x # elementId)

\* C24: addElementToLayer on a locked layer fails and leaves the layers as
\* they were; on an unlocked layer that exists it succeeds, the element is
\* taken out of every membership list, the other members staying in place,
\* and appended to the target's, so that it is a member of the target once
\* and of no other layer.
C24_LockedTarget ==
    [][ lastLayerOp'.op = "addElementToLayer" =>
            LET i == LayerIndex(layers, lastLayerOp'.arg)
            IN  /\ (i # 0 /\ layers[i].locked) =>
                       /\ ~lastLayerOp'.success
                       /\ layers' = layers
                /\ (i # 0 /\ ~layers[i].locked) =>
                       /\ lastLayerOp'.success
                       /\ \E e \in ElementIds :
                              /\ layers' =
                                     [k \in DOMAIN layers |->
                                         [layers[k] EXCEPT
                                             !.elements =
                                                 IF k = i THEN Append(NotThis(@, e), e)
                                                 ELSE NotThis(@, e)]]
                              /\ Occurrences(layers'[i].elements, e) = 1
                              /\ Memberships(layers', e) = 1
      ]_vars

\* C25: in every state the layer operations can reach, duplicateLayer and
\* mergeLayers included, an element id is a member of at most one layer and
\* at most once in that layer's list.
C25_SingleMembershipAllOps ==
    \A e \in ElementIds :
        /\ Cardinality({k \in DOMAIN layers : Occurrences(layers[k].elements, e) > 0}) <= 1
        /\ \A k \in DOMAIN layers : Occurrences(layers[k].elements, e) <= 1

(***************************************************************************)
(* The display attributes of the layers.  The Layer records above carry    *)
(* id, locked and elements; name, visible, opacity and blendMode are kept  *)
(* per layer id in probe.attrs, and la = [m, attrs] is the manager with    *)
(* them.  An opacity is counted in tenths.  probe.a and probe.b are the    *)
(* layer ids the last call was given, probe.value the opacity it was       *)
(* given, probe.message the message of its result, probe.calls the number  *)
(* of calls so far that succeeded.                                         *)
(***************************************************************************)
OpacityOne == 10
NoBlendMode == ""

LayerAttrs(name, visible, opacity, blendMode) ==
    [name |-> name, visible |-> visible, opacity |-> opacity, blendMode |-> blendMode]

AState == [m |-> LState, attrs |-> probe.attrs]

LayerIds(ls) == {ls[i].id : i \in DOMAIN ls}

\* The attributes of the layers that are left in the list.
KeepAttrs(attrs, ls) == [id \in LayerIds(ls) |-> attrs[id]]

\* An operation that reads and writes no display attribute.
Lift(la, m) == [m |-> m, attrs |-> KeepAttrs(la.attrs, m.layers)]

\* createLayer(name, insertAt) with the attributes of the new layer; no name
\* is passed, so it is named after its position.
createLayerWithAttrs(la, insertAt) ==
    LET m == createLayer(la.m, insertAt)
    IN  [m |-> m,
         attrs |-> (m.layerId :> LayerAttrs("Layer " \o ToString(Len(la.m.layers) + 1),
                                             TRUE, OpacityOne, NoBlendMode)) @@ la.attrs]

\* duplicateLayer(layerId) with the attributes the copy takes over.
duplicateLayerWithAttrs(la, layerId) ==
    LET m == duplicateLayer(la.m, layerId)
    IN  IF ~m.success THEN [m |-> m, attrs |-> la.attrs]
        ELSE [m |-> m,
              attrs |-> (m.layerId :> [la.attrs[layerId] EXCEPT !.name = @ \o " (copy)"])
                        @@ la.attrs]

\* renameLayer(layerId, newName)
renameLayer(la, layerId, newName) ==
    IF ~HasLayer(la.m.layers, layerId)
    THEN [la EXCEPT !.m = Fail(la.m, LayerNotFound)]
    ELSE [m |-> Ok(la.m, layerId), attrs |-> [la.attrs EXCEPT ![layerId].name = newName]]

\* setLayerVisibility(layerId, visible)
setLayerVisibility(la, layerId, visible) ==
    IF ~HasLayer(la.m.layers, layerId)
    THEN [la EXCEPT !.m = Fail(la.m, LayerNotFound)]
    ELSE [m |-> Ok(la.m, layerId), attrs |-> [la.attrs EXCEPT ![layerId].visible = visible]]

\* A plausible slip: the range of the opacity is not looked at.
setLayerOpacityAnyValue(la, layerId, opacity) ==
    IF ~HasLayer(la.m.layers, layerId)
    THEN [la EXCEPT !.m = Fail(la.m, LayerNotFound)]
    ELSE [m |-> Ok(la.m, layerId), attrs |-> [la.attrs EXCEPT ![layerId].opacity = opacity]]

\* setLayerOpacity(layerId, opacity)
setLayerOpacity(la, layerId, opacity) ==
    IF ~HasLayer(la.m.layers, layerId)
    THEN [la EXCEPT !.m = Fail(la.m, LayerNotFound)]
    ELSE IF opacity < 0 \/ opacity > OpacityOne
    THEN [la EXCEPT !.m = Fail(la.m, OpacityRange)]
    ELSE [m |-> Ok(la.m, layerId), attrs |-> [la.attrs EXCEPT ![layerId].opacity = opacity]]

\* setLayerBlendMode(layerId, blendMode)
setLayerBlendMode(la, layerId, blendMode) ==
    IF ~HasLayer(la.m.layers, layerId)
    THEN [la EXCEPT !.m = Fail(la.m, LayerNotFound)]
    ELSE [m |-> Ok(la.m, layerId),
          attrs |-> [la.attrs EXCEPT ![layerId].blendMode = blendMode]]

(***************************************************************************)
(* SpecLayerAttrs: every operation of the Layer Manager that takes a layer *)
(* id, called with the ids of the layers in the list and with one that is  *)
(* not there.                                                              *)
(***************************************************************************)
NewNames == {"Sky"}
Opacities == {-1, 5, 11}
BlendModes == {"multiply"}
AttrElementIds == {"rect-1"}

AttrInit ==
    /\ heap = (Live :> EmptyDoc)
    /\ entries = <<>>
    /\ snapshots = <<>>
    /\ currentIndex = -1
    /\ isRecording = TRUE
    /\ nextUuid = 0
    /\ returned = NoRef
    /\ lastOp = NoCall
    /\ mgr = FreshManager
    /\ maxEntries = DefaultMaxEntries
    /\ LayerFresh
    /\ scenario = "off"
    /\ probe = [attrs |-> ("layer-1" :> LayerAttrs("Layer 1", TRUE, OpacityOne, NoBlendMode)),
                a |-> NoLayer, b |-> NoLayer, value |-> 0, message |-> "", calls |-> 0]

AttrStep(op, a, b, value, la) ==
    /\ WithinLayerBounds(la.m)
    /\ la.m.success => probe.calls < MaxAttrCalls
    /\ InstallLayers(op, "", la.m)
    /\ probe' = [attrs |-> la.attrs, a |-> a, b |-> b, value |-> value,
                 message |-> la.m.message,
                 calls |-> IF la.m.success THEN probe.calls + 1 ELSE probe.calls]
    /\ UNCHANGED <<heap, entries, snapshots, currentIndex, maxEntries, isRecording,
                   nextUuid, returned, lastOp, scenario, mgr>>

AttrCreateLayer ==
    \E la \in {createLayerWithAttrs(AState, -1)} :
        AttrStep("createLayer", NoLayer, NoLayer, 0, la)

AttrReorderLayer ==
    \E id \in LayerArgs, newIndex \in 0..(MaxLayers - 1) :
        \E la \in {Lift(AState, reorderLayer(LState, id, newIndex))} :
            AttrStep("reorderLayer", id, NoLayer, 0, la)

AttrRenameLayer ==
    \E id \in LayerArgs, newName \in NewNames :
        \E la \in {renameLayer(AState, id, newName)} :
            AttrStep("renameLayer", id, NoLayer, 0, la)

AttrSetLayerVisibility ==
    \E id \in LayerArgs, visible \in BOOLEAN :
        \E la \in {setLayerVisibility(AState, id, visible)} :
            AttrStep("setLayerVisibility", id, NoLayer, 0, la)

AttrSetLayerLock ==
    \E id \in LayerArgs, locked \in BOOLEAN :
        \E la \in {Lift(AState, setLayerLock(LState, id, locked))} :
            AttrStep("setLayerLock", id, NoLayer, 0, la)

AttrSetLayerOpacity ==
    \E id \in LayerArgs, opacity \in Opacities :
        \E la \in {setLayerOpacity(AState, id, opacity)} :
            AttrStep("setLayerOpacity", id, NoLayer, opacity, la)

AttrSetLayerBlendMode ==
    \E id \in LayerArgs, blendMode \in BlendModes :
        \E la \in {setLayerBlendMode(AState, id, blendMode)} :
            AttrStep("setLayerBlendMode", id, NoLayer, 0, la)

AttrSetActiveLayer ==
    \E id \in LayerArgs :
        \E la \in {Lift(AState, setActiveLayer(LState, id))} :
            AttrStep("setActiveLayer", id, NoLayer, 0, la)

AttrDeleteLayer ==
    \E id \in LayerArgs :
        \E la \in {Lift(AState, deleteLayer(LState, id))} :
            AttrStep("deleteLayer", id, NoLayer, 0, la)

AttrDuplicateLayer ==
    \E id \in LayerArgs :
        \E la \in {duplicateLayerWithAttrs(AState, id)} :
            AttrStep("duplicateLayer", id, NoLayer, 0, la)

AttrAddElementToLayer ==
    \E id \in LayerArgs, e \in AttrElementIds :
        \E la \in {Lift(AState, addElementToLayer(LState, id, e))} :
            AttrStep("addElementToLayer", id, NoLayer, 0, la)

AttrMergeLayers ==
    \E s \in LayerArgs, t \in LayerArgs :
        \E la \in {Lift(AState, mergeLayers(LState, s, t))} :
            AttrStep("mergeLayers", s, t, 0, la)

AttrNext ==
    \/ AttrCreateLayer
    \/ AttrReorderLayer
    \/ AttrRenameLayer
    \/ AttrSetLayerVisibility
    \/ AttrSetLayerLock
    \/ AttrSetLayerOpacity
    \/ AttrSetLayerBlendMode
    \/ AttrSetActiveLayer
    \/ AttrDeleteLayer
    \/ AttrDuplicateLayer
    \/ AttrAddElementToLayer
    \/ AttrMergeLayers

SpecLayerAttrs == AttrInit /\ [][AttrNext]_vars

\* The operations that are given a layer id.
LayerIdCalls ==
    {"reorderLayer", "renameLayer", "setLayerVisibility", "setLayerLock", "setLayerOpacity",
     "setLayerBlendMode", "setActiveLayer", "deleteLayer", "duplicateLayer",
     "addElementToLayer", "mergeLayers"}

C26_WitnessOpacity ==
    /\ lastLayerOp.op = "setLayerOpacity"
    /\ ~lastLayerOp.success
    /\ probe.message = OpacityRange
    /\ probe.value = 11
    /\ Len(layers) = 2
    /\ probe.a = layers[1].id
    /\ probe.attrs[layers[1].id].opacity = 5

C27_MergeAllOrNothing ==
    [][ probe'.tool = "mergeLayers" =>
            /\ ( \/ probe'.source = probe'.target
                 \/ probe'.source \notin LayerIds(layers)
                 \/ probe'.target \notin LayerIds(layers) )
               => (~lastLayerOp'.success /\ layers' = layers)
            /\ ~lastLayerOp'.success => layers' = layers
            /\ lastLayerOp'.success => probe'.source \notin LayerIds(layers')
      ]_vars

\* C27 witness: a layer that holds rect-1 was to be merged with itself; the
\* call failed and both layers are in the list.
C27_Witness ==
    /\ probe.tool = "mergeLayers"
    /\ probe.source = probe.target
    /\ ~lastLayerOp.success
    /\ Len(layers) = 2
    /\ \E i \in DOMAIN layers :
          /\ layers[i].id = probe.source
          /\ layers[i].elements = <<"rect-1">>

(***************************************************************************)
(* The element operations of the Document Manager that are given an id:    *)
(* updateElement, removeElement, duplicateElement and reorderElement.       *)
(* Each returns [dm, ok, out]: the manager afterwards, whether the result  *)
(* was true (or an id), and the id returned, if any.                       *)
(***************************************************************************)
\* Object.assign(element, updates)
ObjectAssign(element, updates) ==
    [f \in DOMAIN element |-> IF f \in DOMAIN updates THEN updates[f] ELSE element[f]]

\* Object.assign on the element findElement returns: the first match, an
\* element before its children.
RECURSIVE updateIn(_, _, _)
updateIn(els, id, updates) ==
    IF els = <<>> THEN [els |-> els, found |-> FALSE]
    ELSE IF Head(els).id = id
    THEN [els |-> <<ObjectAssign(Head(els), updates)>> \o Tail(els), found |-> TRUE]
    ELSE LET inside == IF Head(els).type = "g"
                       THEN updateIn(Head(els).children, id, updates)
                       ELSE [els |-> Head(els).children, found |-> FALSE]
         IN  IF inside.found
             THEN [els |-> <<[Head(els) EXCEPT !.children = inside.els]>> \o Tail(els),
                   found |-> TRUE]
             ELSE LET rest == updateIn(Tail(els), id, updates)
                  IN  [els |-> <<Head(els)>> \o rest.els, found |-> rest.found]

\* A plausible slip: only the top level is searched.
updateElementTopLevel(dm, id, updates) ==
    LET index == IndexOf([i \in DOMAIN dm.doc.elements |-> dm.doc.elements[i].id], id)
    IN  IF index = 0 THEN [dm |-> dm, ok |-> FALSE, out |-> ""]
        ELSE [dm |-> [dm EXCEPT !.doc.elements[index] = ObjectAssign(@, updates),
                                !.mgr.isDirty = TRUE],
              ok |-> TRUE, out |-> ""]

\* updateElement(id, updates)
updateElement(dm, id, updates) ==
    LET u == updateIn(dm.doc.elements, id, updates)
    IN  IF ~u.found THEN [dm |-> dm, ok |-> FALSE, out |-> ""]
        ELSE [dm |-> [dm EXCEPT !.doc.elements = u.els, !.mgr.isDirty = TRUE],
              ok |-> TRUE, out |-> ""]

\* removeElement(id)
removeElement(dm, id) ==
    LET r == removeFromArray(dm.doc.elements, id)
    IN  IF ~r.removed THEN [dm |-> dm, ok |-> FALSE, out |-> ""]
        ELSE [dm |-> [dm EXCEPT !.doc.elements = r.els, !.mgr.isDirty = TRUE],
              ok |-> TRUE, out |-> ""]

\* duplicateElement(id); the offset moves coordinates, which are not modelled.
duplicateElement(dm, id) ==
    LET f == findElement(dm.doc.elements, id)
    IN  IF f = <<>> THEN [dm |-> dm, ok |-> FALSE, out |-> ""]
        ELSE LET c == cloneElement(dm.counters, f[1])
             IN  [dm |-> [dm EXCEPT !.doc.elements = addElement(@, c.el),
                                    !.counters = c.counters,
                                    !.mgr.isDirty = TRUE],
                  ok |-> TRUE, out |-> c.el.id]

\* reorderElement(id, direction)
reorderElement(dm, id, direction) ==
    LET els == dm.doc.elements
        index == IndexOf([i \in DOMAIN els |-> els[i].id], id)
    IN  IF index = 0 THEN [dm |-> dm, ok |-> FALSE, out |-> ""]
        ELSE LET rest == RemoveAt(els, index)
                 moved ==
                     CASE direction = "front" -> Append(rest, els[index])
                       [] direction = "back" -> <<els[index]>> \o rest
                       [] direction = "forward" ->
                              InsertAt(rest, Min(index, Len(rest)), els[index])
                       [] direction = "backward" ->
                              InsertAt(rest, Max(index - 2, 0), els[index])
             IN  [dm |-> [dm EXCEPT !.doc.elements = moved, !.mgr.isDirty = TRUE],
                  ok |-> TRUE, out |-> ""]

(***************************************************************************)
(* SpecElements: elements are added and grouped, the document is saved,    *)
(* and the four operations are called with the ids in the tree and with    *)
(* one that is not there.  probe is the last call: its name, the id it was *)
(* given and what it returned.                                             *)
(***************************************************************************)
MaxTreeNodes == 2
Updates == {[id |-> "star"]}
Directions == {"front", "back", "forward", "backward"}

ElInit ==
    /\ heap = (Live :> EmptyDoc)
    /\ entries = <<>>
    /\ snapshots = <<>>
    /\ currentIndex = -1
    /\ isRecording = TRUE
    /\ nextUuid = 0
    /\ returned = NoRef
    /\ lastOp = NoCall
    /\ mgr = FreshManager
    /\ maxEntries = DefaultMaxEntries
    /\ LayerFresh
    /\ scenario = "off"
    /\ probe = [tool |-> "none", id |-> "", ok |-> FALSE, out |-> ""]

ElCommit(tool, id, r) ==
    /\ CountNodes(r.dm.doc.elements) <= MaxTreeNodes
    /\ \A p \in Prefixes : r.dm.counters[p] <= MaxTreeNodes + 1
    /\ heap' = [heap EXCEPT ![Live] = r.dm.doc]
    /\ mgr' = r.dm.mgr
    /\ counters' = r.dm.counters
    /\ probe' = [tool |-> tool, id |-> id, ok |-> r.ok, out |-> r.out]
    /\ UNCHANGED <<entries, snapshots, currentIndex, maxEntries, isRecording, nextUuid,
                   returned, lastOp, layers, activeLayerId, lastLayerOp, scenario>>

\* doc.addElement(createRect(...))
ElAddElement ==
    \E f \in {createElement(counters, "rect", "")} :
        \E dm \in {[DState EXCEPT !.doc.elements = addElement(@, f.el),
                                  !.counters = f.counters,
                                  !.mgr.isDirty = TRUE]} :
            ElCommit("addElement", "", [dm |-> dm, ok |-> TRUE, out |-> f.el.id])

\* object_group on one element of the tree
ElGroup ==
    \E objectId \in Range(collectAllIds(heap[Live].elements)) :
        \E g \in {groupElements(counters, heap[Live].elements, <<objectId>>, "")} :
            /\ g.found
            /\ \E dm \in {[DState EXCEPT !.doc.elements = g.els,
                                         !.counters = g.counters,
                                         !.mgr.isDirty = TRUE]} :
                   ElCommit("group", objectId, [dm |-> dm, ok |-> TRUE, out |-> ""])

ElSave ==
    \E dm \in {save(DState, "a.svg")} :
        ElCommit("save", "", [dm |-> dm, ok |-> TRUE, out |-> ""])

ElUpdateElement ==
    \E id \in ObjectArgs, updates \in Updates :
        \E r \in {updateElement(DState, id, updates)} : ElCommit("updateElement", id, r)

ElRemoveElement ==
    \E id \in ObjectArgs :
        \E r \in {removeElement(DState, id)} : ElCommit("removeElement", id, r)

ElDuplicateElement ==
    \E id \in ObjectArgs :
        \E r \in {duplicateElement(DState, id)} : ElCommit("duplicateElement", id, r)

ElReorderElement ==
    \E id \in ObjectArgs, direction \in Directions :
        \E r \in {reorderElement(DState, id, direction)} : ElCommit("reorderElement", id, r)

ElNext ==
    \/ ElAddElement
    \/ ElGroup
    \/ ElSave
    \/ ElUpdateElement
    \/ ElRemoveElement
    \/ ElDuplicateElement
    \/ ElReorderElement

SpecElements == ElInit /\ [][ElNext]_vars

\* The elements of a tree, at every depth.
RECURSIVE Subtrees(_)
Subtrees(els) ==
    IF els = <<>> THEN {}
    ELSE {Head(els)} \cup Subtrees(Head(els).children) \cup Subtrees(Tail(els))

\* s without the n entries from position k on.
CutOut(s, k, n) == SubSeq(s, 1, k - 1) \o SubSeq(s, k + n, Len(s))

\* C28: updateElement, removeElement and duplicateElement given an id no
\* element of the tree has, and reorderElement given an id no top-level
\* element has, return false (duplicateElement: none) and leave the tree,
\* the dirty flag and the id counters as they were; given the id of an element
\* at any depth (reorderElement: at the top level) they return true
\* (duplicateElement: the id of the clone it appended), and removeElement
\* takes out one element with that id, with what is below it, and nothing else.
C28_AbsentElementId ==
    [][ LET before == heap[Live].elements
            after == heap'[Live].elements
            ids == collectAllIds(before)
            present == IF probe'.tool = "reorderElement"
                       THEN \E i \in DOMAIN before : before[i].id = probe'.id
                       ELSE probe'.id \in Range(ids)
        IN  probe'.tool \in {"updateElement", "removeElement", "duplicateElement",
                             "reorderElement"} =>
               /\ ~present =>
                      /\ ~probe'.ok
                      /\ probe'.out = ""
                      /\ after = before
                      /\ mgr' = mgr
                      /\ counters' = counters
               /\ present =>
                      /\ probe'.ok
                      /\ probe'.tool = "duplicateElement" =>
                             /\ Len(after) = Len(before) + 1
                             /\ SubSeq(after, 1, Len(before)) = before
                             /\ probe'.out = after[Len(after)].id
                      /\ probe'.tool = "removeElement" =>
                             \E f \in Subtrees(before) :
                                 /\ f.id = probe'.id
                                 /\ LET gone == collectAllIds(<<f>>)
                                    IN  \E k \in 1..(Len(ids) - Len(gone) + 1) :
                                            /\ SubSeq(ids, k, k + Len(gone) - 1) = gone
                                            /\ collectAllIds(after) =
                                                   CutOut(ids, k, Len(gone))
      ]_vars

\* C28 witness: an element inside a group was updated, and the call returned
\* true.
C28_Witness ==
    /\ probe.tool = "updateElement"
    /\ probe.ok
    /\ \E i \in DOMAIN heap[Live].elements :
          /\ heap[Live].elements[i].type = "g"
          /\ \E j \in DOMAIN heap[Live].elements[i].children :
                heap[Live].elements[i].children[j].id = "star"

\* C28, the absent case reached: removeElement was given an id that is not in
\* a saved document holding a group.
C28_WitnessAbsent ==
    /\ probe.tool = "removeElement"
    /\ probe.id = AbsentObject
    /\ ~probe.ok
    /\ ~mgr.isDirty
    /\ \E i \in DOMAIN heap[Live].elements : heap[Live].elements[i].type = "g"

(***************************************************************************)
(* SpecDefs: raw defs fragments are added and removed by id.  probe is the *)
(* last call: its name, the fragment or the id it was given, and what      *)
(* removeDefs returned.                                                    *)
(***************************************************************************)
\* removeDefs(idOrPattern): [dm, removed]
removeDefs(dm, idOrPattern) ==
    LET kept == WithoutId(dm.mgr.rawDefs, idOrPattern)
    IN  IF Len(kept) # Len(dm.mgr.rawDefs)
        THEN [dm |-> [dm EXCEPT !.mgr.rawDefs = kept, !.mgr.isDirty = TRUE], removed |-> TRUE]
        ELSE [dm |-> dm, removed |-> FALSE]

\* A marker, a gradient whose stop has an id of its own, a filter, a symbol
\* without an id.
RawDefs ==
    {Fragment(<<"<marker", IdAttr("arrow"), "/>">>),
     Fragment(<<"<linearGradient", IdAttr("fade"), ">", "<stop", IdAttr("stop-1"), "/>",
                "</linearGradient>">>),
     Fragment(<<"<filter", IdAttr("stop-1"), "/>">>),
     Fragment(<<"<symbol>", "</symbol>">>)}

NoFragment == Fragment(<<>>)

DefsInit ==
    /\ heap = (Live :> createEmptyDocument(DefaultConfig))
    /\ entries = <<>>
    /\ snapshots = <<>>
    /\ currentIndex = -1
    /\ isRecording = TRUE
    /\ nextUuid = 0
    /\ returned = NoRef
    /\ lastOp = NoCall
    /\ mgr = FreshManager
    /\ maxEntries = DefaultMaxEntries
    /\ LayerFresh
    /\ scenario = "off"
    /\ probe = [tool |-> "none", content |-> NoFragment, id |-> "", removed |-> FALSE]

DefsCommit(dm, p) ==
    /\ Len(dm.mgr.rawDefs) <= MaxFragments + 1
    /\ mgr' = dm.mgr
    /\ probe' = p
    /\ UNCHANGED <<heap, entries, snapshots, currentIndex, maxEntries, isRecording,
                   nextUuid, returned, lastOp, layers, activeLayerId, counters,
                   lastLayerOp, scenario>>

DefsAddDefs ==
    \E content \in RawDefs :
        \E dm \in {addDefs(DState, content)} :
            DefsCommit(dm, [tool |-> "addDefs", content |-> content, id |-> content.id,
                            removed |-> FALSE])

DefsRemoveDefs ==
    \E id \in FragmentIds :
        \E r \in {removeDefs(DState, id)} :
            DefsCommit(r.dm, [tool |-> "removeDefs", content |-> NoFragment, id |-> id,
                              removed |-> r.removed])

DefsSave ==
    \E dm \in {save(DState, "a.svg")} :
        DefsCommit(dm, [tool |-> "save", content |-> NoFragment, id |-> "",
                        removed |-> FALSE])

DefsNext ==
    \/ DefsAddDefs
    \/ DefsRemoveDefs
    \/ DefsSave

SpecDefs == DefsInit /\ [][DefsNext]_vars

\* C29: after addDefs(f), f carrying the id X, the bucket is the bucket of
\* before without the fragments whose id is X, followed by f: one stored
\* fragment has the id X and the fragments with another id are all there, in
\* their order.  removeDefs(X) returns true exactly when a fragment with the
\* id X was stored, and takes out those fragments and no other.
C29_ReplaceById ==
    [][ /\ (probe'.tool = "addDefs" /\ probe'.id # "") =>
               /\ mgr'.rawDefs =
                      Append(SelectSeq(mgr.rawDefs, LAMBDA d : d.id # probe'.id),
                             probe'.content)
               /\ Cardinality({i \in DOMAIN mgr'.rawDefs :
                                  mgr'.rawDefs[i].id = probe'.id}) = 1
        /\ probe'.tool = "removeDefs" =>
               /\ probe'.removed <=> (\E i \in DOMAIN mgr.rawDefs :
                                          mgr.rawDefs[i].id = probe'.id)
               /\ mgr'.rawDefs = SelectSeq(mgr.rawDefs, LAMBDA d : d.id # probe'.id)
      ]_vars

(***************************************************************************)
(* save(filePath) with the files it writes.  files maps a path to what was *)
(* last written there; writes lists, for the calls of fs.writeFile in      *)
(* order, whether each is fulfilled ("ok") or rejected.  The result is     *)
(* [dm, files, error], error being "" when the promise of save is          *)
(* fulfilled.                                                              *)
(***************************************************************************)
NoPathSpecified == "no path specified"
IOError == "write rejected"

\* savePath.replace(/\.svg$/, '.svgmeta.json')
MetaPath(savePath) ==
    IF savePath = "a.svg" THEN "a.svgmeta.json"
    ELSE IF savePath = "b.svg" THEN "b.svgmeta.json"
    ELSE savePath

\* The metadata written next to the markup.
Metadata(doc) ==
    <<"{", "version 1.0", "width " \o ToString(doc.config.width),
      "height " \o ToString(doc.config.height), "background " \o doc.config.background, "}">>

\* A plausible slip: the path is remembered and the dirty flag cleared before
\* the files are written.
saveAssignFirst(dm, files, filePath, writes) ==
    LET savePath == IF filePath # "" THEN filePath ELSE dm.mgr.filePath
        saved == save(dm, savePath)
    IN  IF savePath = "" THEN [dm |-> dm, files |-> files, error |-> NoPathSpecified]
        ELSE IF writes[1] # "ok" THEN [dm |-> saved, files |-> files, error |-> IOError]
        ELSE LET f1 == (savePath :> documentToSVG(dm.doc)) @@ files
             IN  IF writes[2] # "ok" THEN [dm |-> saved, files |-> f1, error |-> IOError]
                 ELSE [dm |-> saved,
                       files |-> (MetaPath(savePath) :> Metadata(dm.doc)) @@ f1,
                       error |-> ""]

\* async save(filePath?)
saveAsync(dm, files, filePath, writes) ==
    LET savePath == IF filePath # "" THEN filePath ELSE dm.mgr.filePath
    IN  IF savePath = "" THEN [dm |-> dm, files |-> files, error |-> NoPathSpecified]
        ELSE IF writes[1] # "ok" THEN [dm |-> dm, files |-> files, error |-> IOError]
        ELSE LET f1 == (savePath :> documentToSVG(dm.doc)) @@ files
             IN  IF writes[2] # "ok" THEN [dm |-> dm, files |-> f1, error |-> IOError]
                 ELSE [dm |-> save(dm, savePath),
                       files |-> (MetaPath(savePath) :> Metadata(dm.doc)) @@ f1,
                       error |-> ""]

(***************************************************************************)
(* SpecSave: a canvas is created, a rectangle drawn, the background set,   *)
(* and the document saved, with and without a path, the writes succeeding  *)
(* or not.  probe is the last call with the path it was given, the error   *)
(* it ended with, and the files.                                           *)
(***************************************************************************)
SavePaths == {"", "a.svg", "notes"}
WriteOutcomes == {<<"ok", "ok">>, <<"rejected", "ok">>, <<"ok", "rejected">>}
NoFiles == <<>>

SaveInit ==
    /\ heap = (Live :> createEmptyDocument(DefaultConfig))
    /\ entries = <<>>
    /\ snapshots = <<>>
    /\ currentIndex = -1
    /\ isRecording = TRUE
    /\ nextUuid = 0
    /\ returned = NoRef
    /\ lastOp = NoCall
    /\ mgr = FreshManager
    /\ maxEntries = DefaultMaxEntries
    /\ LayerFresh
    /\ scenario = "off"
    /\ probe = [tool |-> "none", path |-> "", error |-> "", files |-> NoFiles]

SaveCommit(tool, path, r) ==
    /\ Len(r.dm.doc.elements) <= MaxDocElements
    /\ heap' = [heap EXCEPT ![Live] = r.dm.doc]
    /\ mgr' = r.dm.mgr
    /\ counters' = r.dm.counters
    /\ probe' = [tool |-> tool, path |-> path, error |-> r.error, files |-> r.files]
    /\ UNCHANGED <<entries, snapshots, currentIndex, maxEntries, isRecording, nextUuid,
                   returned, lastOp, layers, activeLayerId, lastLayerOp, scenario>>

\* doc.create(width, height, {background})
SaveCreate ==
    \E dm \in {create(DState, 400, 300, "")} :
        SaveCommit("create", "", [dm |-> dm, files |-> probe.files, error |-> ""])

\* doc.addElement(createRect(...))
SaveAddElement ==
    \E f \in {createElement(counters, "rect", "")} :
        \E dm \in {[DState EXCEPT !.doc.elements = addElement(@, f.el),
                                  !.counters = f.counters,
                                  !.mgr.isDirty = TRUE]} :
            SaveCommit("addElement", "", [dm |-> dm, files |-> probe.files, error |-> ""])

\* doc.setBackground(color)
SaveSetBackground ==
    \E dm \in {setBackground(DState, "white")} :
        SaveCommit("setBackground", "", [dm |-> dm, files |-> probe.files, error |-> ""])

\* await doc.save(filePath)
SaveSave ==
    \E filePath \in SavePaths, writes \in WriteOutcomes :
        \E r \in {saveAsync(DState, probe.files, filePath, writes)} :
            SaveCommit("save", filePath, r)

SaveNext ==
    \/ SaveCreate
    \/ SaveAddElement
    \/ SaveSetBackground
    \/ SaveSave

SpecSave == SaveInit /\ [][SaveNext]_vars

\* C30: save() without a path on a document that has no remembered path
\* fails with NoPathSpecified and writes nothing; whenever save fails, the
\* document, the remembered path and the dirty flag are as they were before
\* the call; a save that succeeds leaves the document as it was, remembers
\* the path it wrote to and clears the dirty flag.
C30_SaveFailure ==
    [][ probe'.tool = "save" =>
            /\ (probe'.path = "" /\ mgr.filePath = "") =>
                   /\ probe'.error = NoPathSpecified
                   /\ probe'.files = probe.files
            /\ probe'.error # "" =>
                   /\ heap'[Live] = heap[Live]
                   /\ mgr' = mgr
            /\ probe'.error = "" =>
                   /\ heap'[Live] = heap[Live]
                   /\ mgr'.filePath = (IF probe'.path # "" THEN probe'.path ELSE mgr.filePath)
                   /\ mgr'.filePath # ""
                   /\ ~mgr'.isDirty
                   /\ mgr'.filePath \in DOMAIN probe'.files
      ]_vars

\* C30 witness: on a changed document that was never saved, the markup was
\* written to a.svg and the write of the sidecar was rejected; no path is
\* remembered and the document still counts as changed.
C30_Witness ==
    /\ probe.tool = "save"
    /\ probe.path = "a.svg"
    /\ probe.error = IOError
    /\ DOMAIN probe.files = {"a.svg"}
    /\ probe.files["a.svg"] = documentToSVG(heap[Live])
    /\ Len(heap[Live].elements) = 1
    /\ mgr.filePath = ""
    /\ mgr.isDirty

(***************************************************************************)
(* Template Manager (core/template-manager.ts).  A template is [id, name,  *)
(* category]; the manager is tm = [templates, loaded, files, nextUuid]:    *)
(* the cache by id, the loaded flag, the files of the store by path, each  *)
(* [dir, body], and the number of identifiers handed out.  The operators   *)
(* return [tm, ...] with what the call gave back.  Every file operation    *)
(* succeeds unless the file is not there.                                  *)
(***************************************************************************)
Template(id, name, category) == [id |-> id, name |-> name, category |-> category]

Categories == <<"icons", "shapes", "layouts">>

\* path.join(this.templateDir, category, `${id}.json`)
TemplatePath(category, id) == category \o "/template-" \o ToString(id) \o ".json"

WithoutKey(f, k) == [x \in DOMAIN f \ {k} |-> f[x]]

\* The body of the loop over the categories: the files of the directory are
\* parsed, tagged with the category and put in the cache by their id.
ScanCategory(files, category, cache) ==
    LET here == {p \in DOMAIN files : files[p].dir = category}
        found == {files[p].body.id : p \in here}
    IN  [id \in found \cup DOMAIN cache |->
            IF id \in found
            THEN LET p == CHOOSE q \in here : files[q].body.id = id
                 IN  [files[p].body EXCEPT !.category = category]
            ELSE cache[id]]

RECURSIVE ScanFrom(_, _, _)
ScanFrom(files, k, cache) ==
    IF k > Len(Categories) THEN cache
    ELSE ScanFrom(files, k + 1, ScanCategory(files, Categories[k], cache))

\* A plausible slip: the loaded flag is not looked at.
loadTemplatesAlways(tm) ==
    [tm |-> [tm EXCEPT !.templates = ScanFrom(tm.files, 1, <<>>), !.loaded = TRUE],
     scanned |-> TRUE]

\* loadTemplates(), run to completion
loadTemplates(tm) ==
    IF tm.loaded THEN [tm |-> tm, scanned |-> FALSE]
    ELSE [tm |-> [tm EXCEPT !.templates = ScanFrom(tm.files, 1, <<>>), !.loaded = TRUE],
          scanned |-> TRUE]

\* saveTemplate(name, content, {category})
saveTemplate(tm, name, category) ==
    LET template == Template(tm.nextUuid, name, category)
        filePath == TemplatePath(template.category, template.id)
    IN  [tm |-> [tm EXCEPT !.nextUuid = @ + 1,
                           !.files = (filePath :> [dir |-> template.category,
                                                   body |-> template]) @@ @,
                           !.templates = (template.id :> template) @@ @],
         template |-> <<template>>]

\* getTemplate(templateId): <<template>>, or <<>> for null
getTemplate(tm, templateId) ==
    LET l == loadTemplates(tm)
    IN  [tm |-> l.tm, scanned |-> l.scanned,
         template |-> IF templateId \in DOMAIN l.tm.templates
                      THEN <<l.tm.templates[templateId]>> ELSE <<>>]

\* deleteTemplate(templateId)
deleteTemplate(tm, templateId) ==
    IF templateId \notin DOMAIN tm.templates THEN [tm |-> tm, ok |-> FALSE]
    ELSE LET filePath == TemplatePath(tm.templates[templateId].category, templateId)
         IN  IF filePath \notin DOMAIN tm.files THEN [tm |-> tm, ok |-> FALSE]
             ELSE [tm |-> [tm EXCEPT !.files = WithoutKey(@, filePath),
                                     !.templates = WithoutKey(@, templateId)],
                   ok |-> TRUE]

\* updateTemplate(templateId, updates): the file is the one in the directory
\* of the category the template had.
updateTemplate(tm, templateId, updates) ==
    IF templateId \notin DOMAIN tm.templates THEN [tm |-> tm, template |-> <<>>]
    ELSE LET template == tm.templates[templateId]
             updated == [ObjectAssign(template, updates) EXCEPT !.id = template.id]
             filePath == TemplatePath(template.category, templateId)
         IN  [tm |-> [tm EXCEPT !.files = (filePath :> [dir |-> template.category,
                                                        body |-> updated]) @@ @,
                                !.templates = (templateId :> updated) @@ @],
              template |-> <<updated>>]

(***************************************************************************)
(* SpecTemplates: one caller that awaits every call.  The store holds one  *)
(* template from an earlier run.  mgr holds templates, loaded and files;   *)
(* probe is the last call: its name, the id it was given, whether it gave  *)
(* back a template or true, whether the directories were scanned, and the  *)
(* ids saved and not yet deleted.                                          *)
(***************************************************************************)
MaxTemplates == 1
TemplateNames == {"Star"}
TemplateUpdates == {[name |-> "Sun"], [category |-> "icons"], [id |-> 9]}
StoredTemplate == Template(0, "Home", "icons")
TemplateFiles ==
    (TemplatePath("icons", 0) :> [dir |-> "icons", body |-> StoredTemplate])

TState == [templates |-> mgr.templates, loaded |-> mgr.loaded, files |-> mgr.files,
           nextUuid |-> nextUuid]

TemplateArgs == 0..MaxTemplates

TplInit ==
    /\ heap = (Live :> EmptyDoc)
    /\ entries = <<>>
    /\ snapshots = <<>>
    /\ currentIndex = -1
    /\ isRecording = TRUE
    /\ nextUuid = 1
    /\ returned = NoRef
    /\ lastOp = NoCall
    /\ maxEntries = DefaultMaxEntries
    /\ LayerFresh
    /\ scenario = "off"
    /\ mgr = [templates |-> <<>>, loaded |-> FALSE, files |-> TemplateFiles]
    /\ probe = [tool |-> "none", id |-> 0, ok |-> FALSE, scanned |-> FALSE, saved |-> {}]

TplCommit(tm, tool, id, ok, scanned, saved) ==
    /\ tm.nextUuid <= MaxTemplates + 1
    /\ mgr' = [templates |-> tm.templates, loaded |-> tm.loaded, files |-> tm.files]
    /\ nextUuid' = tm.nextUuid
    /\ probe' = [tool |-> tool, id |-> id, ok |-> ok, scanned |-> scanned, saved |-> saved]
    /\ UNCHANGED <<heap, entries, snapshots, currentIndex, maxEntries, isRecording,
                   returned, lastOp, layers, activeLayerId, counters, lastLayerOp,
                   scenario>>

TplLoad ==
    \E r \in {loadTemplates(TState)} :
        TplCommit(r.tm, "load", 0, TRUE, r.scanned, probe.saved)

TplSave ==
    \E name \in TemplateNames, category \in Range(Categories) :
        \E r \in {saveTemplate(TState, name, category)} :
            TplCommit(r.tm, "save", r.template[1].id, TRUE, FALSE,
                      probe.saved \cup {r.template[1].id})

TplGet ==
    \E id \in TemplateArgs :
        \E r \in {getTemplate(TState, id)} :
            TplCommit(r.tm, "get", id, r.template # <<>>, r.scanned, probe.saved)

TplDelete ==
    \E id \in TemplateArgs :
        \E r \in {deleteTemplate(TState, id)} :
            TplCommit(r.tm, "delete", id, r.ok, FALSE,
                      IF r.ok THEN probe.saved \ {id} ELSE probe.saved)

TplUpdate ==
    \E id \in TemplateArgs, updates \in TemplateUpdates :
        \E r \in {updateTemplate(TState, id, updates)} :
            TplCommit(r.tm, "update", id, r.template # <<>>, FALSE, probe.saved)

TplNext ==
    \/ TplLoad
    \/ TplSave
    \/ TplGet
    \/ TplDelete
    \/ TplUpdate

SpecTemplates == TplInit /\ [][TplNext]_vars

C35_CacheStoreConsistent ==
    [][ /\ \A id \in DOMAIN mgr'.templates :
               /\ mgr'.templates[id].id = id
               /\ TemplatePath(mgr'.templates[id].category, id) \in DOMAIN mgr'.files
        /\ (probe'.tool = "delete" /\ probe'.id \in probe.saved) =>
               /\ probe'.ok
               /\ probe'.id \notin DOMAIN mgr'.templates
               /\ \A p \in DOMAIN mgr'.files : mgr'.files[p].body.id # probe'.id
      ]_vars

(***************************************************************************)
(* SpecTemplateLoad: getTemplate / listTemplates / loadTemplates calls     *)
(* that overlap.  A call runs on the one thread of the event loop up to    *)
(* its next await and goes on when the awaited file operation has          *)
(* completed, in any order among the callers.  The awaits of               *)
(* loadTemplates are ensureDir (its four mkdir are taken as one), one      *)
(* readdir per category and one readFile per file.  probe holds for each   *)
(* caller its position pc, the index cat of the category it is in, the     *)
(* files it has still to read and, for a call that returned, the ids it    *)
(* was given.  The store does not change.                                  *)
(***************************************************************************)
MaxCallers == 2
Callers == 1..MaxCallers

PersistedFiles ==
    (TemplatePath("icons", 0) :> [dir |-> "icons", body |-> StoredTemplate])
    @@ (TemplatePath("shapes", 1) :> [dir |-> "shapes", body |-> Template(1, "Star", "shapes")])

PersistedIds == {PersistedFiles[p].body.id : p \in DOMAIN PersistedFiles}

Orderings(S) == {s \in [1..Cardinality(S) -> S] : Range(s) = S}

\* the frame of a call: where it is, and what it holds
Frame(pc, cat, pending, answer) ==
    [pc |-> pc, cat |-> cat, pending |-> pending, answer |-> answer]

Idle == Frame("idle", 0, <<>>, {})

\* lines 118-123, 146-150 and 45-46: a loaded manager answers from the cache
\* at once; otherwise loadTemplates is entered and waits in ensureDir.
startCall(tm) ==
    IF tm.loaded THEN [tm |-> tm, frame |-> Frame("done", 0, <<>>, DOMAIN tm.templates)]
    ELSE [tm |-> tm, frame |-> Frame("ensureDir", 0, <<>>, {})]

\* lines 47-48 and 56: ensureDir is over, the cache is cleared and the first
\* directory is asked for.
afterEnsureDir(tm) ==
    [tm |-> [tm EXCEPT !.templates = <<>>], frame |-> Frame("readdir", 1, <<>>, {})]

\* lines 52-72 past category k: the next directory is asked for, or the flag
\* is set and the caller is answered from the cache.
afterCategory(tm, k) ==
    IF k < Len(Categories)
    THEN [tm |-> tm, frame |-> Frame("readdir", k + 1, <<>>, {})]
    ELSE [tm |-> [tm EXCEPT !.loaded = TRUE],
          frame |-> Frame("done", 0, <<>>, DOMAIN tm.templates)]

\* lines 56-62: the listing of category k has arrived
afterReaddir(tm, k, listing) ==
    IF listing = <<>> THEN afterCategory(tm, k)
    ELSE [tm |-> tm, frame |-> Frame("readFile", k, listing, {})]

\* lines 62-66: the text of the first pending file has arrived
afterReadFile(tm, k, pending) ==
    LET template == [tm.files[Head(pending)].body EXCEPT !.category = Categories[k]]
        set == [tm EXCEPT !.templates = (template.id :> template) @@ @]
    IN  IF Tail(pending) = <<>> THEN afterCategory(set, k)
        ELSE [tm |-> set, frame |-> Frame("readFile", k, Tail(pending), {})]

LoadInit ==
    /\ heap = (Live :> EmptyDoc)
    /\ entries = <<>>
    /\ snapshots = <<>>
    /\ currentIndex = -1
    /\ isRecording = TRUE
    /\ nextUuid = 2
    /\ returned = NoRef
    /\ lastOp = NoCall
    /\ maxEntries = DefaultMaxEntries
    /\ LayerFresh
    /\ scenario = "off"
    /\ mgr = [templates |-> <<>>, loaded |-> FALSE, files |-> PersistedFiles]
    /\ probe = [c \in Callers |-> Idle]

LoadCommit(c, r) ==
    /\ mgr' = [templates |-> r.tm.templates, loaded |-> r.tm.loaded, files |-> r.tm.files]
    /\ probe' = [probe EXCEPT ![c] = r.frame]
    /\ UNCHANGED <<heap, entries, snapshots, currentIndex, maxEntries, isRecording,
                   nextUuid, returned, lastOp, layers, activeLayerId, counters,
                   lastLayerOp, scenario>>

CallStart ==
    \E c \in {x \in Callers : probe[x].pc = "idle"} :
        LoadCommit(c, startCall(TState))

EnsureDirDone ==
    \E c \in {x \in Callers : probe[x].pc = "ensureDir"} :
        LoadCommit(c, afterEnsureDir(TState))

ReaddirDone ==
    \E c \in {x \in Callers : probe[x].pc = "readdir"} :
        \E listing \in Orderings({p \in DOMAIN mgr.files :
                                     mgr.files[p].dir = Categories[probe[c].cat]}) :
            LoadCommit(c, afterReaddir(TState, probe[c].cat, listing))

ReadFileDone ==
    \E c \in {x \in Callers : probe[x].pc = "readFile"} :
        LoadCommit(c, afterReadFile(TState, probe[c].cat, probe[c].pending))

\* the caller has its answer and may call again
CallReturn ==
    \E c \in {x \in Callers : probe[x].pc = "done"} :
        LoadCommit(c, [tm |-> TState, frame |-> Idle])

LoadNext ==
    \/ CallStart
    \/ EnsureDirDone
    \/ ReaddirDone
    \/ ReadFileDone
    \/ CallReturn

SpecTemplateLoad == LoadInit /\ [][LoadNext]_vars

\* C40 (as claimed): whenever the manager is marked loaded its cache holds
\* every template persisted in the store, and every call that has returned
\* was given all of them.
C40_LoadedIsComplete ==
    /\ mgr.loaded => PersistedIds \subseteq DOMAIN mgr.templates
    /\ \A c \in Callers : probe[c].pc = "done" => PersistedIds \subseteq probe[c].answer

\* C32: undo with currentIndex < 0, redo with the cursor at the tail and
\* goto(i) with i outside 0..length-1 return none and leave entries,
\* snapshots and cursor as they were; every other undo, redo and goto
\* returns a snapshot; canUndo is currentIndex >= 0 and canRedo is
\* currentIndex < length - 1.
C32_FailedMovesAreNoOps ==
    [][ LET failed ==
                \/ lastOp'.op = "undo" /\ currentIndex < 0
                \/ lastOp'.op = "redo" /\ currentIndex >= Len(entries) - 1
                \/ lastOp'.op = "goto" /\ (lastOp'.arg < 0 \/ lastOp'.arg > Len(entries) - 1)
        IN  /\ lastOp'.op \in {"undo", "redo", "goto"} =>
                IF failed
                THEN /\ returned' = NoRef
                     /\ entries' = entries
                     /\ snapshots' = snapshots
                     /\ currentIndex' = currentIndex
                ELSE /\ returned' # NoRef
                     /\ returned' \in DOMAIN heap'
                     /\ entries' = entries
                     /\ snapshots' = snapshots
            /\ canUndo(HState') <=> currentIndex' >= 0
            /\ canRedo(HState') <=> currentIndex' < Len(entries') - 1
      ]_vars

\* C32 witness: a goto past the last of two entries was refused with the
\* cursor on the first entry, where undo and redo are both possible.
C32_Witness ==
    /\ lastOp.op = "goto"
    /\ lastOp.arg = 2
    /\ Len(entries) = 2
    /\ currentIndex = 0
    /\ returned = NoRef

\* C32 witness: an undo on a manager whose cursor is before the first of
\* its entries was refused.
C32_WitnessUndo ==
    /\ lastOp.op = "undo"
    /\ lastOp.from = -1
    /\ Len(entries) >= 1
    /\ currentIndex = -1
    /\ returned = NoRef

(***************************************************************************)
(* SpecLayerActive: the calls that make, remove, move and select layers,   *)
(* on up to MaxActiveLayers layers; no element is assigned.                *)
(***************************************************************************)
MaxActiveLayers == 3

ActiveStep(op, arg, m) ==
    /\ Len(m.layers) <= MaxActiveLayers
    /\ m.counters["layer"] <= MaxActiveLayers + 1
    /\ InstallLayers(op, arg, m)
    /\ UNCHANGED nonLayerVars

ActiveCreateLayer ==
    \E insertAt \in -1..Len(layers) + 1 :
        ActiveStep("createLayer", "", createLayer(LState, insertAt))

ActiveDeleteLayer ==
    \E id \in LayerArgs :
        ActiveStep("deleteLayer", id, deleteLayer(LState, id))

ActiveMergeLayers ==
    \E s \in LayerArgs, t \in LayerArgs :
        ActiveStep("mergeLayers", s, mergeLayers(LState, s, t))

ActiveDuplicateLayer ==
    \E id \in LayerArgs :
        ActiveStep("duplicateLayer", id, duplicateLayer(LState, id))

ActiveReorderLayer ==
    \E id \in LayerArgs, newIndex \in -1..Len(layers) :
        ActiveStep("reorderLayer", id, reorderLayer(LState, id, newIndex))

ActiveSetActiveLayer ==
    \E id \in LayerArgs :
        ActiveStep("setActiveLayer", id, setActiveLayer(LState, id))

ActiveReset ==
    \E m \in {resetLayers(LState)} :
        ActiveStep("reset", activeLayerId, m)

ActiveNext ==
    \/ ActiveCreateLayer
    \/ ActiveDeleteLayer
    \/ ActiveMergeLayers
    \/ ActiveDuplicateLayer
    \/ ActiveReorderLayer
    \/ ActiveSetActiveLayer
    \/ ActiveReset

SpecLayerActive == LayerInit /\ [][ActiveNext]_vars

\* C33: from construction on and after every call the active layer id is
\* the id of a layer of the list; the layer of a list of one (after
\* construction, after reset) is the active one; createLayer on a manager
\* that has layers leaves the active id as it was; a deleteLayer (also the
\* one within mergeLayers) that removes the active layer from index i makes
\* the layer then at index min(i, count - 1) the active one.
C33_ActiveLayerValid ==
    /\ HasActiveLayer(LState)
    /\ Len(layers) = 1
    /\ [][ /\ HasActiveLayer(LState')
           /\ Len(layers') = 1 => activeLayerId' = layers'[1].id
           /\ lastLayerOp'.op \in {"createLayer", "duplicateLayer", "reorderLayer"} =>
                  activeLayerId' = activeLayerId
           /\ ( /\ lastLayerOp'.op \in {"deleteLayer", "mergeLayers"}
                /\ lastLayerOp'.success
                /\ lastLayerOp'.arg = activeLayerId ) =>
                  /\ Len(layers') = Len(layers) - 1
                  /\ activeLayerId' =
                         layers'[Min(LayerIndex(layers, activeLayerId), Len(layers'))].id
         ]_vars

\* C33 witness: the active layer was the second of three and was deleted;
\* the layer that followed it is active.
C33_Witness ==
    /\ lastLayerOp.op = "deleteLayer"
    /\ lastLayerOp.success
    /\ Len(layers) = 2
    /\ ~HasLayer(layers, lastLayerOp.arg)
    /\ activeLayerId = layers[2].id
    /\ layers[1].id = "layer-1"

\* C33 witness: the active layer was the last of the list and was merged
\* into another; the layer now last is active.
C33_WitnessMerge ==
    /\ lastLayerOp.op = "mergeLayers"
    /\ lastLayerOp.success
    /\ Len(layers) = 2
    /\ activeLayerId = layers[2].id
    /\ lastLayerOp.arg = "layer-3"

\* C34 (as claimed): an updateElement(id, updates) that returned true leaves
\* an element with that id in the tree (getElementById(id) finds it), and
\* the element the Element Model's update returns for an element of the
\* tree has the id of that element.
C34_UpdateKeepsId ==
    [][ /\ (probe'.tool = "updateElement" /\ probe'.ok) =>
               findElement(heap'[Live].elements, probe'.id) # <<>>
        /\ \A id \in Range(collectAllIds(heap'[Live].elements)), updates \in Updates :
               ObjectAssign(findElement(heap'[Live].elements, id)[1], updates).id = id
      ]_vars

(***************************************************************************)
(* SpecLayerIds: one Layer Manager that is kept while layers are created,  *)
(* duplicated and deleted, Document Managers are constructed and the       *)
(* canvas is created again.  The id counters are those of the process.     *)
(***************************************************************************)
MaxIdLayers == 3

LayerIdsInit ==
    /\ heap = (Live :> createEmptyDocument(DefaultConfig))
    /\ entries = <<>>
    /\ snapshots = <<>>
    /\ currentIndex = -1
    /\ isRecording = TRUE
    /\ nextUuid = 0
    /\ returned = NoRef
    /\ lastOp = NoCall
    /\ mgr = FreshManager
    /\ probe = [tool |-> "none"]
    /\ maxEntries = DefaultMaxEntries
    /\ LayerFresh
    /\ scenario = "off"

LayerIdsCommit(tool, arg, m, dm) ==
    /\ Len(m.layers) <= MaxIdLayers
    /\ m.counters["layer"] <= MaxIdLayers
    /\ layers' = m.layers
    /\ activeLayerId' = m.activeLayerId
    /\ lastLayerOp' = LayerCall(tool, arg, m)
    /\ counters' = IF tool \in {"create", "new"} THEN dm.counters ELSE m.counters
    /\ heap' = [heap EXCEPT ![Live] = dm.doc]
    /\ mgr' = dm.mgr
    /\ probe' = [tool |-> tool]
    /\ UNCHANGED <<entries, snapshots, currentIndex, maxEntries, isRecording, nextUuid,
                   returned, lastOp, scenario>>

IdsCreateLayer ==
    \E insertAt \in {-1, 0} :
        \E m \in {createLayer(LState, insertAt)} :
            LayerIdsCommit("createLayer", "", m, DState)

IdsDuplicateLayer ==
    \E id \in LayerArgs :
        \E m \in {duplicateLayer(LState, id)} :
            LayerIdsCommit("duplicateLayer", id, m, DState)

IdsDeleteLayer ==
    \E id \in LayerArgs :
        \E m \in {deleteLayer(LState, id)} :
            LayerIdsCommit("deleteLayer", id, m, DState)

\* createDocument(width, height, background): create on the current manager
IdsCreateDocument ==
    \E size \in Sizes, background \in Backgrounds :
        \E dm \in {create(DState, size[1], size[2], background)} :
            LayerIdsCommit("create", "", [LState EXCEPT !.success = TRUE], dm)

\* new SVGDocumentManager()
IdsNewDocumentManager ==
    \E m \in {[LState EXCEPT !.success = TRUE]} :
        LayerIdsCommit("new", "", m, NewDocumentManager)

LayerIdsNext ==
    \/ IdsCreateLayer
    \/ IdsDuplicateLayer
    \/ IdsDeleteLayer
    \/ IdsCreateDocument
    \/ IdsNewDocumentManager

SpecLayerIds == LayerIdsInit /\ [][LayerIdsNext]_vars

\* C36 (as claimed): no two layers of the layer list have the same
\* identifier.
C36_UniqueLayerIds ==
    \A i, j \in DOMAIN layers : i # j => layers[i].id # layers[j].id

(***************************************************************************)
(* SpecToolLayers: the drawing, object and history tools on one canvas     *)
(* that is not created again.                                              *)
(***************************************************************************)
ToolLayersNext ==
    \/ Draw
    \/ ObjectDelete
    \/ ObjectDuplicate
    \/ ObjectGroup
    \/ ObjectUngroup
    \/ HistoryUndo
    \/ HistoryRedo

SpecToolLayers == ToolInit /\ [][ToolLayersNext]_vars

\* C37 (as claimed): every element id in the membership list of a layer is
\* the id of an element of the live document.
C37_MembershipsAreLive ==
    \A i \in DOMAIN layers :
        \A id \in Range(layers[i].elements) :
            findElement(heap[Live].elements, id) # <<>>

(***************************************************************************)
(* SpecDefsIds: gradients are defined with generated ids, the canvas is    *)
(* created again on the current manager, and the history is moved.  The    *)
(* counter table has a counter for gradients besides those of Prefixes.    *)
(***************************************************************************)
MaxDefsRecords == 3

\* resetCounters(): every counter of the table is deleted
resetCounters(c) == [p \in DOMAIN c |-> 0]

DefsIdsInit ==
    /\ heap = (Live :> createEmptyDocument(DefaultConfig))
    /\ entries = <<>>
    /\ snapshots = <<>>
    /\ currentIndex = -1
    /\ isRecording = TRUE
    /\ nextUuid = 0
    /\ returned = NoRef
    /\ lastOp = NoCall
    /\ mgr = FreshManager
    /\ probe = [tool |-> "none"]
    /\ maxEntries = DefaultMaxEntries
    /\ layers = NewLayerManager(NoCounters).layers
    /\ activeLayerId = NewLayerManager(NoCounters).activeLayerId
    /\ lastLayerOp = NoLayerCall
    /\ counters = [p \in Prefixes \cup {"gradient"} |-> 0]
    /\ scenario = "off"

DefsIdsCommit(h, c, mg, tool) ==
    /\ h.nextUuid <= MaxDefsRecords
    /\ Len(h.heap[Live].defs.gradients) <= MaxDefsRecords
    /\ Install([h EXCEPT !.ret = NoRef])
    /\ counters' = c
    /\ mgr' = mg
    /\ probe' = [tool |-> tool]
    /\ UNCHANGED <<maxEntries, isRecording, lastOp, layers, activeLayerId, lastLayerOp,
                   scenario>>

\* style_gradient without an id: generateId('gradient'), doc.addGradient, record
StyleGradient ==
    \E g \in {generateId(counters, "gradient")} :
        \E dm \in {addGradient(DState, g.id)} :
            DefsIdsCommit(RecordDocument(dm.doc, "style_gradient"), g.counters, dm.mgr,
                          "style_gradient")

\* createDocument(width, height, background)
DefsCreateDocument ==
    \E background \in Backgrounds :
        \E dm \in {create(DState, 800, 600, background)} :
            DefsIdsCommit([HState EXCEPT !.heap = [heap EXCEPT ![Live] = dm.doc]],
                          resetCounters(counters), dm.mgr, "createDocument")

\* history_undo, history_redo and a goto, each followed by doc.fromJSON
DefsUndo ==
    \E steps \in 1..MaxSteps :
        /\ canUndo(HState)
        /\ \E r \in {RestoreDocument(Undo(HState, steps), counters)} :
               DefsIdsCommit(r.h, r.counters, [mgr EXCEPT !.isDirty = TRUE], "undo")

DefsRedo ==
    \E steps \in 1..MaxSteps :
        /\ canRedo(HState)
        /\ \E r \in {RestoreDocument(Redo(HState, steps), counters)} :
               DefsIdsCommit(r.h, r.counters, [mgr EXCEPT !.isDirty = TRUE], "redo")

DefsGoto ==
    \E i \in DOMAIN entries :
        \E r \in {RestoreDocument(Goto(HState, i - 1), counters)} :
            DefsIdsCommit(r.h, r.counters, [mgr EXCEPT !.isDirty = TRUE], "goto")

DefsIdsNext ==
    \/ StyleGradient
    \/ DefsCreateDocument
    \/ DefsUndo
    \/ DefsRedo
    \/ DefsGoto

SpecDefsIds == DefsIdsInit /\ [][DefsIdsNext]_vars

\* C38 (as claimed): no two gradients in the defs of the live document have
\* the same identifier.
C38_UniqueDefsIds ==
    LET gs == heap[Live].defs.gradients
    IN  \A i, j \in DOMAIN gs : i # j => gs[i] # gs[j]

\* C39 (as claimed): a call leaves the membership list of every layer that
\* is locked when it is made, and still in the list afterwards, as it was.
C39_LockedMembershipFrozen ==
    [][ \A i \in DOMAIN layers :
            (layers[i].locked /\ HasLayer(layers', layers[i].id)) =>
                layers'[LayerIndex(layers', layers[i].id)].elements = layers[i].elements
      ]_vars
====
